---- MODULE Spec2Model ----
(***************************************************************************)
(* State-machine models of the scraping and metadata scripts of the        *)
(* science_news repository.  Each script is a program of its own; every    *)
(* one has its variables, its initial predicate and its specification.     *)
(* Variables that belong to another script stay at their idle value.       *)
(***************************************************************************)
EXTENDS Integers, Sequences, FiniteSets, TLC

VARIABLES
    \* ---- worker-queue scrapers (base_scraper.py, science_alert_scraper.py)
    scraper,        \* which run() is executing: "base" or "alert" ("none": idle)
    data,           \* the loaded input: data[k] is TRUE when entry k has a url
    queue,          \* asyncio.Queue contents, FIFO; None is the exit sentinel
    unfinished,     \* asyncio.Queue._unfinished_tasks
    idle,           \* worker tasks at "await queue.get()", holding no item
    fetching,       \* keys whose worker is suspended in fetch_article_details
    holders,        \* number of workers suspended in fetch_article_details
    exited,         \* workers that left their loop (sentinel) or were cancelled
    output_data,    \* output_data[k]: number of records appended for key k
    errors,         \* keys whose worker printed 'Error processing article'
    getCount,       \* getCount[k]: how many times item k was returned by get()
    doneCount,      \* doneCount[k]: how many task_done() calls followed item k
    runPc,          \* position of run(): "start", "join", "save", "done"
    saved,          \* what save_to_json wrote (output_data at that moment)
    \* ---- BaseScraper.run_with_proxy_async (combines.py)
    proxies,        \* self.proxies, a list of proxies
    retries,        \* the retries argument
    attempt,        \* the loop variable of "for attempt in range(retries)"
    proxy,          \* the proxy chosen for the current attempt
    used,           \* the proxy of every invocation of func, in order
    outcomes,       \* how every invocation of func ended: "ok" or "raised"
    retryPc,        \* "loop", "call" (suspended in func), "returned", "raised"
    retryResult,    \* the value returned or the exception raised
    \* ---- CrossrefScraper (crossref_async.py)
    dois,           \* fetch_all_metadata: the dois argument
    faProxies,      \* fetch_all_metadata: the proxies argument
    faIndex,        \* fetch_all_metadata: the loop variable index
    faProxy,        \* fetch_all_metadata: the local variable proxy
    tasks,          \* the coroutines created: <<doi, proxy>> of each call
    results,        \* what gather has collected, in task order
    faPc,           \* "loop", "gather", "returned" ("idle": not called)
    max_retries,    \* self.max_retries
    callDoi,        \* get_json_from_doi: the doi argument
    callProxy,      \* get_json_from_doi: the proxy argument
    callAttempt,    \* get_json_from_doi: the loop variable attempt
    requests,       \* the GET requests of the call: <<url, proxy>> of each
    responses,      \* how each request ended: "ok", "non200", "badbody", "exception"
    callPc,         \* "loop", "get" (suspended in session.get), "returned"
    callResult,     \* what the call returned
    failBudget,     \* how many more requests the environment lets fail
    \* ---- process_all_articles (article_info_with_proxy.py)
    articles,       \* the loaded list: articles[a] is the list of paperlinks
    batchProxies,   \* the proxies argument
    proxy_limit,    \* the proxy_limit argument
    cyclePos,       \* position in proxies of the proxy proxy_cycle gave last
    batchI,         \* the index i of the while loop
    batchPos,       \* process_article_batch: position of article in the batch
    linkPos,        \* process_article_batch: position of paperlink in the article
    success_count,  \* process_article_batch: success_count
    processed_papers,     \* process_article_batch: the records of the batch
    all_processed_papers, \* the records of all batches
    requestLog,     \* the requests sent: <<article, paperlink, proxy>> of each
    batchPc,        \* "while", "batch", "done" ("idle": not called)
    savedPapers,    \* what was written to output_path
    \* ---- process_all_articles (query_doi.py)
    qArticles,      \* the loaded list: the paperlinks <<doi, url>> of each article
    qLimit,         \* the proxy_limit argument
    qI,             \* the index i of the while loop
    qPos,           \* process_article_batch: position of article in the batch
    qLink,          \* process_article_batch: position of paperlink in the article
    qSuccess,       \* process_article_batch: success_count
    qProcessed,     \* processed_papers: key -> source_article_indices (<<>>: no entry)
    qUrls,          \* processed_papers: key -> urls
    no_match_articles,  \* the list of <<index, doi, url>> without a match
    qPc,            \* "while", "batch", "done" ("idle": not called)
    \* ---- OpenAlexScraper (open_alex_scraper.py)
    metadata_cache, \* the keys of self.metadata_cache
    metadata_file,  \* the keys written to all_metadata.json
    request_count,  \* self.request_count
    oaDoi,          \* get_paper_metadata: the doi argument of the call in progress
    oaApi,          \* get_paper_metadata: what api_url identifies
    oaCalls,        \* the finished calls: [doi, http, cached]
    oaPc,           \* "ready", "awaiting" ("idle": no scraper constructed)
    \* ---- process_all_articles (open_alex_scraper_one.py)
    oArticles,      \* the loaded list: the DOIs of each article's paperlinks
    oLink,          \* process_article: per task, the position of its paperlink
    oWait,          \* process_article: per task, awaiting get_paper_metadata
    oPapers,        \* process_article: per task, processed_papers
    cache_data,     \* the global cache_data
    cache_file,     \* what processed_papers.json holds
    doi_tracking,   \* the global doi_tracking: doi -> indices
    oRequests,      \* the DOIs requested from OpenAlex, in order
    all_papers,     \* what was written to output_path
    oPc,            \* "gather", "done" ("idle": not called)
    \* ---- URLCleaner.clean_data (url_cleaner.py)
    cArticles,      \* the articles: [doi_urls, dois]
    cPos,           \* the position of the loop over articles
    cLogged,        \* the exception handler of clean_data has logged an error
    cPc,            \* "check", "loop", "done" ("idle": not called)
    \* ---- check_redirect (url_cleaner.py, redirecting_urls.py)
    crImpl,         \* which of the two check_redirect functions was called
    crUrl,          \* the url argument
    crHeads,        \* the HEAD requests sent, in order: <<url, allow_redirects>>
    crStatus,       \* response.status (0: no response)
    crLocation,     \* the Location header of the response (NoHeader: none)
    crResult,       \* the returned tuple (<<>>: nothing returned)
    crPc,           \* "call", "head", "returned" ("idle": not called)
    \* ---- ScienceAlertScraper.fetch_article_details (science_alert_scraper.py)
    fdTemplate,     \* the fields of article_template that are not None
    fdStatus,       \* the status of the response to the GET of final_url (0: none)
    fdPage,         \* the page: [title, author, links]
    fdArticle,      \* the returned Article (<<>>: nothing returned)
    fdPc,           \* "call", "get", "returned" ("idle": not called)
    \* ---- main (combines.py)
    mProxies,       \* the proxies argument
    mDois,          \* all_dois: [doi, status], status what Crossref answers for it
    mTask,          \* the position in all_dois of the fetch_metadata task running
    mAttempt,       \* run_with_proxy_async: attempt of the running task
    mUsed,          \* per task, the proxies chosen for its attempts
    mRaised,        \* the tasks that ended with 'All proxy attempts failed.'
    mRequests,      \* the DOIs for which a GET was sent to Crossref
    mFile,          \* the content of all_metadata.json (NotWritten: none)
    mPc,            \* "start", "gather", "raised", "exit" ("idle": not called)
    \* ---- analyze_json_duplicates (json_analysis.py, main.py)
    jData,          \* the loaded list: [urls, sciencealert] per item
    jPos,           \* the position of the loop over data_items
    counters,       \* counters[name][value]: the item ids appended
    duplicates,     \* duplicates[name][value]: the ids reported (<<>>: no entry)
    totals,         \* totals[name]
    jPc,            \* "loop", "done" ("idle": not called)
    \* ---- ScienceAlertScraper.worker and its cache (science_alert_scraper.py)
    wTemplate,      \* the fields of article_template that are not None
    cached_articles, \* url -> cached article (NoArticle: not a key)
    wQueue,         \* the queued entries: <<key, url>>
    wFetching,      \* the entries whose fetch_article_details is awaited
    wOutput,        \* what the workers appended to output_data
    wChecks,        \* per handled entry: [key, url, cached, fetched]
    wFetches,       \* the urls passed to fetch_article_details, in order
    \* ---- linkcheck.run and worker.run (backlink_check.py)
    num_workers,    \* the number of worker threads
    in_file,        \* the lines of the input file: "url" or "blank"
    bLine,          \* populate_input_queue: the position of the next line
    temp_bl,        \* populate_input_queue: the index of the last backlink (-1: unbound)
    number_of_urls, \* self.number_of_urls
    input_queue,    \* the items of the input queue: an index, or Sentinel for None
    inUnfinished,   \* the unfinished tasks of the input queue
    output_queue,   \* the items of the output queue
    outUnfinished,  \* the unfinished tasks of the output queue
    bWorker,        \* per worker thread, its position in worker.run
    bLink,          \* per worker thread, the link it holds
    csvLinks,          \* self.links
    bMain           \* the position of the main thread in linkcheck.run

scraperVars == <<scraper, data, queue, unfinished, idle, fetching, holders,
                 exited, output_data, errors, getCount, doneCount, runPc, saved>>

retryVars == <<proxies, retries, attempt, proxy, used, outcomes, retryPc,
               retryResult>>

crossrefVars == <<dois, faProxies, faIndex, faProxy, tasks, results, faPc,
                  max_retries, callDoi, callProxy, callAttempt, requests,
                  responses, callPc, callResult, failBudget>>

batchVars == <<articles, batchProxies, proxy_limit, cyclePos, batchI, batchPos,
               linkPos, success_count, processed_papers, all_processed_papers,
               requestLog, batchPc, savedPapers>>

queryVars == <<qArticles, qLimit, qI, qPos, qLink, qSuccess, qProcessed, qUrls,
               no_match_articles, qPc>>

openAlexVars == <<metadata_cache, metadata_file, request_count, oaDoi, oaApi,
                  oaCalls, oaPc>>

oneVars == <<oArticles, oLink, oWait, oPapers, cache_data, cache_file,
             doi_tracking, oRequests, all_papers, oPc>>

cleanVars == <<cArticles, cPos, cLogged, cPc>>

redirectVars == <<crImpl, crUrl, crHeads, crStatus, crLocation, crResult, crPc>>

detailsVars == <<fdTemplate, fdStatus, fdPage, fdArticle, fdPc>>

mainVars == <<mProxies, mDois, mTask, mAttempt, mUsed, mRaised, mRequests, mFile,
              mPc>>

analysisVars == <<jData, jPos, counters, duplicates, totals, jPc>>

workerVars == <<wTemplate, cached_articles, wQueue, wFetching, wOutput, wChecks,
                wFetches>>

backlinkVars == <<num_workers, in_file, bLine, temp_bl, number_of_urls, input_queue,
                  inUnfinished, output_queue, outUnfinished, bWorker, bLink, csvLinks,
                  bMain>>

earlierVars == <<scraperVars, retryVars, crossrefVars, batchVars, queryVars,
                 openAlexVars>>

laterVars == <<oneVars, cleanVars, redirectVars, detailsVars, mainVars, 
              analysisVars, workerVars, backlinkVars>>

vars == <<earlierVars, laterVars>>

(***************************************************************************)
(* Bounds of the model and constants of the program.                       *)
(***************************************************************************)
NumWorkers == 10
MaxEntries == 11
MaxMixed == 3
MaxProxies == 3
MaxRetries == 3
MaxDois == 41
MaxFetchProxies == 2
MaxFailures == 3
SwitchEvery == 20
DefaultMaxRetries == 3
MaxArticles == 3
MaxLinks == 2
MaxBatchProxies == 2
SmallLimit == 2
DefaultProxyLimit == 50
BatchSize == 50
MaxQArticles == 2
MaxQLinks == 2
MaxQDois == 2
MaxQUrls == 1
QBatchSize == 50
MaxCalls == 3
MaxOArticles == 2
MaxOLinks == 2
MaxCArticles == 3
MaxDoiUrls == 2
MinStatus == 298
MaxStatus == 401
MaxPageLinks == 2
MaxMainDois == 2
MaxMainProxies == 2
DefaultRetries == 3
MaxItems == 2
MaxUrls == 2
MaxWEntries == 2
MaxBWorkers == 2
MaxLines == 2

None == 0

RECURSIVE SeqOfSet(_)
\* the elements of a finite set of integers in increasing order
SeqOfSet(S) ==
    IF S = {} THEN <<>>
    ELSE LET m == CHOOSE x \in S : \A y \in S : x <= y
         IN  <<m>> \o SeqOfSet(S \ {m})

(***************************************************************************)
(* The worker-queue scrapers.                                              *)
(*                                                                         *)
(* asyncio runs one task at a time and switches only at an await that      *)
(* suspends, so an action is a task's code from one suspension to the      *)
(* next.  The worker tasks run the same code and keep no state of their    *)
(* own besides the item they hold, so the model records how many workers   *)
(* are at each position and which items are held.  output_data is kept as  *)
(* a count of records per key.                                             *)
(***************************************************************************)
Scrapers == {"base", "alert"}

\* the inputs: every length up to MaxEntries with all urls present, and
\* every pattern of missing urls up to MaxMixed entries
Inputs ==
    {[k \in 1..n |-> TRUE] : n \in 0..MaxEntries}
      \cup UNION {[1..n -> BOOLEAN] : n \in 0..MaxMixed}

Keys == DOMAIN data

Enqueued == {k \in Keys : data[k]}

ScraperIdle ==
    /\ scraper = "none"
    /\ data = <<>>
    /\ queue = <<>>
    /\ unfinished = 0
    /\ idle = 0
    /\ fetching = {}
    /\ holders = 0
    /\ exited = 0
    /\ output_data = <<>>
    /\ errors = {}
    /\ getCount = <<>>
    /\ doneCount = <<>>
    /\ runPc = "idle"
    /\ saved = <<>>

\* the state once load_json_data has returned
ScraperInit ==
    /\ scraper \in Scrapers
    /\ data \in Inputs
    /\ queue = <<>>
    /\ unfinished = 0
    /\ idle = 0
    /\ fetching = {}
    /\ holders = 0
    /\ exited = 0
    /\ output_data = [k \in DOMAIN data |-> 0]
    /\ errors = {}
    /\ getCount = [k \in DOMAIN data |-> 0]
    /\ doneCount = [k \in DOMAIN data |-> 0]
    /\ runPc = "start"
    /\ saved = <<>>

\* the sentinels ScienceAlertScraper.run puts after the entries, one per worker
Sentinels(s) == IF s = "alert" THEN [i \in 1..NumWorkers |-> None] ELSE <<>>

\* run() up to its await queue.join(): the entries with a url are put on the
\* queue in order, the workers are created, the sentinels are put
RunEnqueue ==
    /\ runPc = "start"
    /\ queue' = SeqOfSet(Enqueued) \o Sentinels(scraper)
    /\ unfinished' = Len(queue')
    /\ idle' = NumWorkers
    /\ runPc' = "join"
    /\ UNCHANGED <<scraper, data, fetching, holders, exited, output_data,
                   errors, getCount, doneCount, saved>>

\* what the queue holds after a get() that returns its head
Dequeue(q) == Tail(q)

\* a worker that starts the fetch in the background and stays at get()
IdleAfterSpawn(i) == i

\* the workers left at get() when get() returned an item to one of them:
\* that worker awaits fetch_article_details before it calls get() again
IdleAfterGet(i) == i - 1

\* queue.get() returns an item to a worker at get(), which calls
\* fetch_article_details and suspends there
WorkerGetsItem ==
    /\ runPc = "join"
    /\ idle > 0
    /\ queue # <<>>
    /\ Head(queue) # None
    /\ queue' = Dequeue(queue)
    /\ idle' = IdleAfterGet(idle)
    /\ holders' = holders + 1
    /\ fetching' = fetching \cup {Head(queue)}
    /\ getCount' = [getCount EXCEPT ![Head(queue)] = @ + 1]
    /\ UNCHANGED <<scraper, data, unfinished, exited, output_data, errors,
                   doneCount, runPc, saved>>

\* queue.get() returns None to a worker of ScienceAlertScraper: task_done()
\* and break
WorkerGetsNone ==
    /\ runPc = "join"
    /\ idle > 0
    /\ queue # <<>>
    /\ Head(queue) = None
    /\ queue' = Dequeue(queue)
    /\ unfinished' = unfinished - 1
    /\ idle' = idle - 1
    /\ exited' = exited + 1
    /\ UNCHANGED <<scraper, data, fetching, holders, output_data, errors,
                   getCount, doneCount, runPc, saved>>

\* a worker that appends a record whether the fetch returned or raised
AppendedAlways(s, ok) == 1

\* the records a worker appends for a key when the fetch returned (ok) or
\* raised: BaseScraper.worker appends on return only, ScienceAlertScraper.worker
\* appends the fetched entry on return and the 'N/A' article on an exception
Appended(s, ok) == IF ok \/ s = "alert" THEN 1 ELSE 0

\* the keys a worker reports as failed without a record when the fetch of k
\* ended: the except branch of BaseScraper.worker only prints the error, the
\* one of ScienceAlertScraper.worker appends the 'N/A' article instead
Reported(s, k, ok) == IF ok \/ s = "alert" THEN {} ELSE {k}

\* the task_done() calls of the worker's finally block
TaskDoneCalls == 1

\* fetch_article_details of key k returns or raises; the worker appends,
\* calls task_done() and goes round its loop to the next get()
FetchEnds(k, ok) ==
    /\ runPc = "join"
    /\ k \in fetching
    /\ output_data' = [output_data EXCEPT ![k] = @ + Appended(scraper, ok)]
    /\ errors' = errors \cup Reported(scraper, k, ok)
    /\ doneCount' = [doneCount EXCEPT ![k] = @ + TaskDoneCalls]
    /\ unfinished' = unfinished - TaskDoneCalls
    /\ fetching' = fetching \ {k}
    /\ holders' = holders - 1
    /\ idle' = idle + 1
    /\ UNCHANGED <<scraper, data, queue, exited, getCount, runPc, saved>>

FetchReturns == \E k \in fetching : FetchEnds(k, TRUE)

FetchRaises == \E k \in fetching : FetchEnds(k, FALSE)

\* a join that waits for the queue to be empty only
JoinWhenEmpty(q, u) == q = <<>>

\* queue.join() returns when _unfinished_tasks is zero
JoinReady(q, u) == u = 0

\* queue.join() returns; run() cancels every worker task and awaits it
RunJoined ==
    /\ runPc = "join"
    /\ JoinReady(queue, unfinished)
    /\ exited' = exited + idle
    /\ idle' = 0
    /\ runPc' = "save"
    /\ UNCHANGED <<scraper, data, queue, unfinished, fetching, holders,
                   output_data, errors, getCount, doneCount, saved>>

\* save_to_json(output_data)
RunSave ==
    /\ runPc = "save"
    /\ saved' = output_data
    /\ runPc' = "done"
    /\ UNCHANGED <<scraper, data, queue, unfinished, idle, fetching, holders,
                   exited, output_data, errors, getCount, doneCount>>

ScraperNext ==
    \/ RunEnqueue
    \/ WorkerGetsItem
    \/ WorkerGetsNone
    \/ FetchReturns
    \/ FetchRaises
    \/ RunJoined
    \/ RunSave

RECURSIVE SumOver(_, _)
SumOver(f, S) ==
    IF S = {} THEN 0
    ELSE LET k == CHOOSE x \in S : TRUE IN f[k] + SumOver(f, S \ {k})

\* queue items returned by get() and not yet marked task_done()
InFlight == SumOver(getCount, Keys) - SumOver(doneCount, Keys)

RunOver == runPc \in {"save", "done"}

\* C1: in BaseScraper.run every item put on the queue is returned by get() to
\* at most one worker, task_done() follows it at most once and only after the
\* get(), and once it is done output_data holds one record for the key when
\* the fetch returned and none when it raised; when run() has passed join()
\* every enqueued item was dequeued once and marked done once, and a key that
\* was never enqueued has no record.
C1_EachItemOnce ==
    scraper = "base" =>
        \A k \in Keys :
            /\ getCount[k] <= 1
            /\ doneCount[k] <= getCount[k]
            /\ output_data[k] <= doneCount[k]
            /\ k \in fetching <=> getCount[k] = 1 /\ doneCount[k] = 0
            /\ doneCount[k] = 1 =>
                  output_data[k] = (IF k \in errors THEN 0 ELSE 1)
            /\ k \notin Enqueued => getCount[k] = 0
            /\ RunOver /\ k \in Enqueued =>
                  getCount[k] = 1 /\ doneCount[k] = 1

\* BaseScraper.run has saved, with more items than workers, one fetch that
\* raised and one that returned
C1_Witness ==
    /\ scraper = "base"
    /\ runPc = "done"
    /\ Cardinality(Enqueued) > NumWorkers
    /\ \E k \in Enqueued : k \in errors /\ saved[k] = 0
    /\ \E k \in Enqueued : k \notin errors /\ saved[k] = 1

\* C2: in both run() methods at most 10 queue items are dequeued and not yet
\* marked task_done(), however many urls were enqueued.
C2_PoolBounded ==
    /\ InFlight <= 10
    /\ holders = InFlight
    /\ idle + holders + exited <= 10

\* all ten workers hold an item while another item is still queued
C2_Witness ==
    /\ InFlight = 10
    /\ queue # <<>>
    /\ Head(queue) # None
    /\ Cardinality(Enqueued) > 10

\* C3: save_to_json is not reached before task_done() was called for every
\* enqueued item: from then on no worker holds an item, no sentinel or item
\* is left on the queue, and what was saved is the final output_data.
C3_SaveAfterJoin ==
    RunOver =>
        /\ \A k \in Enqueued : doneCount[k] >= 1
        /\ fetching = {}
        /\ holders = 0
        /\ unfinished = 0
        /\ queue = <<>>
        /\ runPc = "done" => saved = output_data

\* a run over more items than workers has saved all of its records
C3_Witness ==
    /\ runPc = "done"
    /\ Cardinality(Enqueued) > NumWorkers
    /\ \E k \in Enqueued : saved[k] = 1

(***************************************************************************)
(* BaseScraper.run_with_proxy_async (combines.py): a function is awaited   *)
(* through a randomly chosen proxy, up to `retries` times.                 *)
(***************************************************************************)
NoProxy == 0

RetryIdle ==
    /\ proxies = <<>>
    /\ retries = 0
    /\ attempt = 0
    /\ proxy = NoProxy
    /\ used = <<>>
    /\ outcomes = <<>>
    /\ retryPc = "idle"
    /\ retryResult = "none"

\* the call run_with_proxy_async(func, retries = r) on a scraper whose proxy
\* list holds n distinct proxies
RetryInit ==
    /\ proxies \in {[i \in 1..n |-> i] : n \in 0..MaxProxies}
    /\ retries \in 0..MaxRetries
    /\ attempt = 0
    /\ proxy = NoProxy
    /\ used = <<>>
    /\ outcomes = <<>>
    /\ retryPc = "loop"
    /\ retryResult = "none"

\* a loop that makes one attempt too many
OneMoreAttempt(a, r) == a <= r

\* range(retries) has another value for attempt a (counted from 0)
MoreAttempts(a, r) == a < r

\* random.choice(self.proxies): any element of the list
Choice(ps) == {ps[i] : i \in 1..Len(ps)}

\* the next pass of the for loop: a proxy is chosen and func is awaited with it
RetryAttempt ==
    /\ retryPc = "loop"
    /\ MoreAttempts(attempt, retries)
    /\ proxies # <<>>
    /\ \E p \in Choice(proxies) :
          /\ proxy' = p
          /\ used' = Append(used, p)
    /\ retryPc' = "call"
    /\ UNCHANGED <<proxies, retries, attempt, outcomes, retryResult>>

\* choice() of an empty list raises IndexError before the try block
RetryNoProxies ==
    /\ retryPc = "loop"
    /\ MoreAttempts(attempt, retries)
    /\ proxies = <<>>
    /\ retryPc' = "raised"
    /\ retryResult' = "IndexError"
    /\ UNCHANGED <<proxies, retries, attempt, proxy, used, outcomes>>

\* func returned: its result is returned at once
CallReturns ==
    /\ retryPc = "call"
    /\ outcomes' = Append(outcomes, "ok")
    /\ retryResult' = "result"
    /\ retryPc' = "returned"
    /\ UNCHANGED <<proxies, retries, attempt, proxy, used>>

\* func raised an Exception: it is logged and the loop continues
CallRaises ==
    /\ retryPc = "call"
    /\ outcomes' = Append(outcomes, "raised")
    /\ attempt' = attempt + 1
    /\ retryPc' = "loop"
    /\ UNCHANGED <<proxies, retries, proxy, used, retryResult>>

\* the loop is exhausted: raise Exception("All proxy attempts failed.")
RetryExhausted ==
    /\ retryPc = "loop"
    /\ ~MoreAttempts(attempt, retries)
    /\ retryPc' = "raised"
    /\ retryResult' = "All proxy attempts failed."
    /\ UNCHANGED <<proxies, retries, attempt, proxy, used, outcomes>>

\* C4: run_with_proxy_async invokes func at most `retries` times; every
\* invocation before the last one raised; when it returns, the last invocation
\* is the one that did not raise and its result is what is returned; when all
\* `retries` invocations raised no further one is made and the exception
\* raised is 'All proxy attempts failed.'
C4_RetryBounded ==
    /\ Len(used) <= retries
    /\ Len(outcomes) <= Len(used)
    /\ \A i \in 1..(Len(outcomes) - 1) : outcomes[i] = "raised"
    /\ retryPc = "returned" <=>
          (outcomes # <<>> /\ outcomes[Len(outcomes)] = "ok")
    /\ retryPc = "returned" =>
          retryResult = "result" /\ Len(used) = Len(outcomes)
    /\ (Len(outcomes) = retries /\ \A i \in 1..retries : outcomes[i] = "raised")
          => /\ retryPc \in {"loop", "raised"}
             /\ Len(used) = retries
             /\ retryPc = "raised" => retryResult = "All proxy attempts failed."

\* three invocations were made, all raised, and the call has raised
C4_Witness ==
    /\ retries = 3
    /\ Len(outcomes) = 3
    /\ \A i \in 1..3 : outcomes[i] = "raised"
    /\ retryPc = "raised"
    /\ retryResult = "All proxy attempts failed."

\* C5: with more than one proxy in the list, the proxy of the attempt that
\* follows a failed attempt differs from the proxy of the failed attempt.
C5_NewProxyOnRetry ==
    Len(proxies) > 1 =>
        \A i \in 1..(Len(used) - 1) : used[i + 1] # used[i]

(***************************************************************************)
(* CrossrefScraper (crossref_async.py).  get_json_from_doi requests one    *)
(* DOI with retries; fetch_all_metadata creates one such call per DOI and  *)
(* gathers them.  The gathered calls share nothing but the session and     *)
(* their results are collected by position, so the model runs them one     *)
(* after another in task order.                                            *)
(***************************************************************************)
CallIdle ==
    /\ callDoi = 0
    /\ callProxy = NoProxy
    /\ callAttempt = 0
    /\ requests = <<>>
    /\ responses = <<>>
    /\ callPc = "idle"
    /\ callResult = <<"none">>

CrossrefIdle ==
    /\ dois = <<>>
    /\ faProxies = <<>>
    /\ faIndex = 0
    /\ faProxy = NoProxy
    /\ tasks = <<>>
    /\ results = <<>>
    /\ faPc = "idle"
    /\ max_retries = 0
    /\ failBudget = 0
    /\ CallIdle

\* f"https://api.crossref.org/works/{doi}"
WorksUrl(doi) == <<"https://api.crossref.org/works/", doi>>

\* proxy_str: f"http://{proxy}" for a truthy proxy, None otherwise
ProxyStr(p) == IF p = NoProxy THEN <<>> ELSE <<"http://", p>>

\* no value yet, and the value None
NoResult == <<"none">>

NoneResult == <<"None">>

\* get_json(crossref_record) of the record Crossref holds for the doi
Metadata(doi) == <<"metadata", doi>>

\* the state at the call get_json_from_doi(doi, session, proxy)
CallStart(doi, p) ==
    /\ callDoi' = doi
    /\ callProxy' = p
    /\ callAttempt' = 0
    /\ requests' = <<>>
    /\ responses' = <<>>
    /\ callPc' = "loop"
    /\ callResult' = NoResult

\* a single call get_json_from_doi(doi, session, proxy), with or without a
\* proxy, on a scraper with any max_retries
DoiInit ==
    /\ dois = <<>>
    /\ faProxies = <<>>
    /\ faIndex = 0
    /\ faProxy = NoProxy
    /\ tasks = <<>>
    /\ results = <<>>
    /\ faPc = "idle"
    /\ max_retries \in 0..MaxRetries
    /\ failBudget = max_retries
    /\ callDoi \in 1..2
    /\ callProxy \in {NoProxy, 1}
    /\ callAttempt = 0
    /\ requests = <<>>
    /\ responses = <<>>
    /\ callPc = "loop"
    /\ callResult = <<"none">>

\* a loop that reads max_retries as the number of retries after the first try
RetriesAfterFirst(a, m) == a <= m

\* range(self.max_retries) has another value for attempt a (counted from 0)
AnotherAttempt(a, m) == a < m

\* the next pass of the loop: session.get(url, proxy=proxy_str)
CrossrefGet ==
    /\ callPc = "loop"
    /\ AnotherAttempt(callAttempt, max_retries)
    /\ requests' = Append(requests, <<WorksUrl(callDoi), ProxyStr(callProxy)>>)
    /\ callPc' = "get"
    /\ UNCHANGED <<callDoi, callProxy, callAttempt, responses, callResult,
                   max_retries, failBudget>>

\* status 200 and a body get_json accepts: the metadata is returned
ResponseOk ==
    /\ callPc = "get"
    /\ responses' = Append(responses, "ok")
    /\ callResult' = Metadata(callDoi)
    /\ callPc' = "returned"
    /\ UNCHANGED <<callDoi, callProxy, callAttempt, requests, max_retries,
                   failBudget>>

\* the request failed: a status other than 200 (continue), a 200 whose body
\* makes response.json() or get_json raise, or an exception of session.get
\* (both caught and logged); the loop goes on
ResponseFails(kind) ==
    /\ callPc = "get"
    /\ failBudget > 0
    /\ failBudget' = failBudget - 1
    /\ responses' = Append(responses, kind)
    /\ callAttempt' = callAttempt + 1
    /\ callPc' = "loop"
    /\ UNCHANGED <<callDoi, callProxy, requests, callResult, max_retries>>

ResponseNon200 == ResponseFails("non200")

ResponseBadBody == ResponseFails("badbody")

ResponseException == ResponseFails("exception")

\* the loop is exhausted: the failure is logged and None is returned
CrossrefGiveUp ==
    /\ callPc = "loop"
    /\ ~AnotherAttempt(callAttempt, max_retries)
    /\ callResult' = NoneResult
    /\ callPc' = "returned"
    /\ UNCHANGED <<callDoi, callProxy, callAttempt, requests, responses,
                   max_retries, failBudget>>

faVars == <<dois, faProxies, faIndex, faProxy, tasks, results, faPc>>

AllFailed(rs) == \A i \in 1..Len(rs) : rs[i] # "ok"

\* C6: get_json_from_doi issues at most max_retries GET requests, all for the
\* DOI's works url; every request before the last one failed; it returns the
\* metadata of the DOI exactly when the last request got status 200 with a
\* parseable body, and makes no request after that one; when max_retries
\* requests have all failed it makes no further request and what it returns
\* is None.
C6_CrossrefRetries ==
    /\ Len(requests) <= max_retries
    /\ Len(responses) <= Len(requests)
    /\ \A i \in 1..Len(requests) : requests[i][1] = WorksUrl(callDoi)
    /\ \A i \in 1..(Len(responses) - 1) : responses[i] # "ok"
    /\ (responses # <<>> /\ responses[Len(responses)] = "ok")
          <=> callResult = Metadata(callDoi)
    /\ callResult = Metadata(callDoi) =>
          callPc = "returned" /\ Len(requests) = Len(responses)
    /\ (Len(responses) = max_retries /\ AllFailed(responses))
          => /\ callPc \in {"loop", "returned"}
             /\ Len(requests) = max_retries
             /\ callPc = "returned" => callResult = NoneResult
    /\ callResult = NoneResult =>
          Len(responses) = max_retries /\ AllFailed(responses)

\* three requests failed in the three ways and None was returned
C6_Witness ==
    /\ max_retries = 3
    /\ responses = <<"non200", "badbody", "exception">>
    /\ callPc = "returned"
    /\ callResult = NoneResult

\* fetch_all_metadata(dois, proxies) on CrossrefScraper(): n distinct DOIs
\* and a list of m proxies
FetchAllInit ==
    /\ dois \in {[i \in 1..n |-> i] : n \in 0..MaxDois}
    /\ faProxies \in {[i \in 1..m |-> i] : m \in 0..MaxFetchProxies}
    /\ faIndex = 0
    /\ faProxy = NoProxy
    /\ tasks = <<>>
    /\ results = <<>>
    /\ faPc = "loop"
    /\ max_retries = DefaultMaxRetries
    /\ failBudget = MaxFailures
    /\ CallIdle

\* a rotation that advances with every DOI
ProxyIndexPerDoi(index, n) == index % n

\* proxy_index = (index // 20) % len(proxies)
ProxyIndex(index, n) == (index \div SwitchEvery) % n

\* "if index % 20 == 0"
SwitchProxy(index) == index % SwitchEvery = 0

\* one pass of the loop over enumerate(dois): the proxy is switched when
\* index % 20 == 0, and the call for the DOI is created with the current proxy
FetchAllStep ==
    /\ faPc = "loop"
    /\ faIndex < Len(dois)
    /\ SwitchProxy(faIndex) => faProxies # <<>>
    /\ faProxy' = IF SwitchProxy(faIndex)
                  THEN faProxies[ProxyIndex(faIndex, Len(faProxies)) + 1]
                  ELSE faProxy
    /\ tasks' = Append(tasks, <<dois[faIndex + 1], faProxy'>>)
    /\ faIndex' = faIndex + 1
    /\ UNCHANGED <<dois, faProxies, results, faPc, max_retries, failBudget,
                   callDoi, callProxy, callAttempt, requests, responses,
                   callPc, callResult>>

\* with an empty proxy list "% len(proxies)" raises ZeroDivisionError
FetchAllNoProxies ==
    /\ faPc = "loop"
    /\ faIndex < Len(dois)
    /\ SwitchProxy(faIndex)
    /\ faProxies = <<>>
    /\ faPc' = "raised"
    /\ UNCHANGED <<dois, faProxies, faIndex, faProxy, tasks, results,
                   max_retries, failBudget, callDoi, callProxy, callAttempt,
                   requests, responses, callPc, callResult>>

\* the loop is over: asyncio.gather(*tasks)
FetchAllGather ==
    /\ faPc = "loop"
    /\ faIndex = Len(dois)
    /\ faPc' = "gather"
    /\ UNCHANGED <<dois, faProxies, faIndex, faProxy, tasks, results,
                   max_retries, failBudget, callDoi, callProxy, callAttempt,
                   requests, responses, callPc, callResult>>

\* the position gather gives the result of the task at position pos
ResultSlot(pos) == pos

\* the next gathered call starts running
GatherRun ==
    /\ faPc = "gather"
    /\ callPc = "idle"
    /\ Len(results) < Len(tasks)
    /\ CallStart(tasks[Len(results) + 1][1], tasks[Len(results) + 1][2])
    /\ UNCHANGED <<faVars, max_retries, failBudget>>

\* a gathered call has returned: its result is kept at the task's position
GatherCollect ==
    /\ faPc = "gather"
    /\ callPc = "returned"
    /\ ResultSlot(Len(results) + 1) = Len(results) + 1
    /\ results' = Append(results, callResult)
    /\ callDoi' = 0
    /\ callProxy' = NoProxy
    /\ callAttempt' = 0
    /\ requests' = <<>>
    /\ responses' = <<>>
    /\ callPc' = "idle"
    /\ callResult' = NoResult
    /\ UNCHANGED <<dois, faProxies, faIndex, faProxy, tasks, faPc,
                   max_retries, failBudget>>

\* every gathered call has returned: the list of results is returned
FetchAllReturn ==
    /\ faPc = "gather"
    /\ callPc = "idle"
    /\ Len(results) = Len(tasks)
    /\ faPc' = "returned"
    /\ UNCHANGED <<dois, faProxies, faIndex, faProxy, tasks, results,
                   max_retries, failBudget, callDoi, callProxy, callAttempt,
                   requests, responses, callPc, callResult>>

\* the position (from 1) of the gathered call that is running
Running == Len(results) + 1

\* C7: with a non-empty proxy list, every request for the DOI at input
\* position i (from 0), the first and every retry, goes to that DOI's works
\* url through proxies[(i div 20) mod len(proxies)], and the list returned
\* holds, at every position, the metadata of the DOI at that position or None.
C7_ProxyEveryTwenty ==
    faProxies # <<>> =>
        /\ callPc \in {"loop", "get", "returned"} =>
              \A r \in 1..Len(requests) :
                  requests[r] =
                    <<WorksUrl(dois[Running]),
                      ProxyStr(faProxies[(((Running - 1) \div 20)
                                            % Len(faProxies)) + 1])>>
        /\ Len(results) <= Len(dois)
        /\ \A i \in 1..Len(results) :
              results[i] \in {Metadata(dois[i]), NoneResult}
        /\ faPc = "returned" => Len(results) = Len(dois)

\* the DOI at position 40 is retried through the first of two proxies
C7_Witness ==
    /\ Len(faProxies) = 2
    /\ Running = 41
    /\ Len(requests) = 2
    /\ callPc = "get"

(***************************************************************************)
(* process_all_articles of article_info_with_proxy.py: the articles are    *)
(* walked in batches, one proxy per batch.  A paperlink is "ok" when it    *)
(* has a doi or a url, and "empty" when both are None or '', which makes   *)
(* get_paper_metadata raise ValueError before any request.                 *)
(***************************************************************************)
LinkKinds == {"ok", "empty"}

Min(a, b) == IF a <= b THEN a ELSE b

SeqsUpTo(S, n) == UNION {[1..k -> S] : k \in 0..n}

BatchIdle ==
    /\ articles = <<>>
    /\ batchProxies = 0
    /\ proxy_limit = 0
    /\ cyclePos = 0
    /\ batchI = 0
    /\ batchPos = 0
    /\ linkPos = 0
    /\ success_count = 0
    /\ processed_papers = <<>>
    /\ all_processed_papers = <<>>
    /\ requestLog = <<>>
    /\ batchPc = "idle"
    /\ savedPapers = <<>>

\* the state once articleinfos.json is loaded
BatchInit ==
    /\ articles \in SeqsUpTo(SeqsUpTo(LinkKinds, MaxLinks), MaxArticles)
    /\ batchProxies \in 1..MaxBatchProxies
    /\ proxy_limit \in {SmallLimit, DefaultProxyLimit}
    /\ cyclePos = 0
    /\ batchI = 0
    /\ batchPos = 0
    /\ linkPos = 0
    /\ success_count = 0
    /\ processed_papers = <<>>
    /\ all_processed_papers = <<>>
    /\ requestLog = <<>>
    /\ batchPc = "while"
    /\ savedPapers = <<>>

\* next(proxy_cycle): the position after pos in the cycle over n proxies
NextInCycle(pos, n) == (pos % n) + 1

\* the proxy next(proxy_cycle) gave last
CurrentProxy == cyclePos

\* article_batch = articles[i:i + batch_size]
ArticleBatch == SubSeq(articles, batchI + 1, Min(batchI + BatchSize, Len(articles)))

\* the position in articles of the article at batchPos of the batch
ArticleAt == batchI + batchPos

\* the head of the while loop with i < len(articles): the next proxy is taken
\* and process_article_batch is called on articles[i:i + 50]
BatchStart ==
    /\ batchPc = "while"
    /\ batchI < Len(articles)
    /\ cyclePos' = NextInCycle(cyclePos, batchProxies)
    /\ batchPos' = 1
    /\ linkPos' = 1
    /\ success_count' = 0
    /\ processed_papers' = <<>>
    /\ batchPc' = "batch"
    /\ UNCHANGED <<articles, batchProxies, proxy_limit, batchI,
                   all_processed_papers, requestLog, savedPapers>>

AtLink ==
    /\ batchPc = "batch"
    /\ batchPos <= Len(ArticleBatch)
    /\ linkPos <= Len(ArticleBatch[batchPos])

\* process_article_batch returns (processed_papers, success_count): the
\* records are added to all_processed_papers and i moves by success_count
BatchReturns ==
    /\ all_processed_papers' = all_processed_papers \o processed_papers
    /\ batchI' = batchI + success_count
    /\ batchPc' = "while"
    /\ UNCHANGED <<articles, batchProxies, proxy_limit, cyclePos, batchPos,
                   linkPos, success_count, processed_papers, requestLog,
                   savedPapers>>

\* the next paperlink of the batch is requested through the batch's proxy;
\* get_paper_metadata returns the paper's record, or the "Error" record when
\* the request fails
BatchLink(kind) ==
    /\ AtLink
    /\ success_count < proxy_limit
    /\ ArticleBatch[batchPos][linkPos] = "ok"
    /\ requestLog' = Append(requestLog, <<ArticleAt, linkPos, CurrentProxy>>)
    /\ processed_papers' = Append(processed_papers, <<ArticleAt, linkPos, kind>>)
    /\ success_count' = success_count + 1
    /\ linkPos' = linkPos + 1
    /\ UNCHANGED <<articles, batchProxies, proxy_limit, cyclePos, batchI, batchPos,
                   all_processed_papers, batchPc, savedPapers>>

BatchLinkFound == BatchLink("paper")

BatchLinkError == BatchLink("Error")

\* success_count has reached proxy_limit: the batch stops
BatchLimit ==
    /\ AtLink
    /\ success_count >= proxy_limit
    /\ BatchReturns

\* a paperlink without doi and url: ValueError, caught; the batch stops
BatchBadLink ==
    /\ AtLink
    /\ success_count < proxy_limit
    /\ ArticleBatch[batchPos][linkPos] = "empty"
    /\ BatchReturns

\* the paperlinks of the article are exhausted: the next article of the batch
BatchNextArticle ==
    /\ batchPc = "batch"
    /\ batchPos <= Len(ArticleBatch)
    /\ linkPos > Len(ArticleBatch[batchPos])
    /\ batchPos' = batchPos + 1
    /\ linkPos' = 1
    /\ UNCHANGED <<articles, batchProxies, proxy_limit, cyclePos, batchI,
                   success_count, processed_papers, all_processed_papers,
                   requestLog, batchPc, savedPapers>>

\* the articles of the batch are exhausted
BatchEnd ==
    /\ batchPc = "batch"
    /\ batchPos > Len(ArticleBatch)
    /\ BatchReturns

\* the while loop is over: all_processed_papers is written to output_path
BatchSave ==
    /\ batchPc = "while"
    /\ batchI >= Len(articles)
    /\ savedPapers' = all_processed_papers
    /\ batchPc' = "done"
    /\ UNCHANGED <<articles, batchProxies, proxy_limit, cyclePos, batchI, batchPos,
                   linkPos, success_count, processed_papers,
                   all_processed_papers, requestLog>>

\* how many entries of the sequence s satisfy: first two fields are <<a, l>>
CountOf(s, a, l) ==
    Cardinality({n \in 1..Len(s) : s[n][1] = a /\ s[n][2] = l})

AllLinksOk ==
    \A a \in 1..Len(articles) :
        \A l \in 1..Len(articles[a]) : articles[a][l] = "ok"

\* C8: when process_all_articles has saved, every paperlink of every article
\* was requested exactly once and has exactly one record in the saved output
\* (stated for the default proxy_limit of 50 and for inputs whose paperlinks
\* all have a doi or a url).
C8_EveryLinkOnce ==
    (batchPc = "done" /\ AllLinksOk /\ proxy_limit = DefaultProxyLimit) =>
        \A a \in 1..Len(articles) :
            \A l \in 1..Len(articles[a]) :
                /\ CountOf(requestLog, a, l) = 1
                /\ CountOf(savedPapers, a, l) = 1

(***************************************************************************)
(* process_all_articles of query_doi.py: every paperlink is looked up at   *)
(* OpenAlex by DOI, then by url, and kept in the dict processed_papers     *)
(* under its DOI (its url when it has no DOI), or in no_match_articles.    *)
(* A paperlink is <<doi, url>>; Missing stands for None or ''.  An         *)
(* article's 'index' is its position in the list.                          *)
(***************************************************************************)
Missing == 0

QLinks == (0..MaxQDois) \X (0..MaxQUrls)

\* the dict keys: a DOI string or a url string
DoiKey(doi) == <<"doi", doi>>

UrlKey(url) == <<"url", url>>

QKeys == {DoiKey(x) : x \in 1..MaxQDois} \cup {UrlKey(u) : u \in 1..MaxQUrls}
           \cup {<<"None">>}

\* key = doi if doi else paperlink_url
KeyOf(link) ==
    IF link[1] # Missing THEN DoiKey(link[1])
    ELSE IF link[2] # Missing THEN UrlKey(link[2])
    ELSE <<"None">>

QueryIdle ==
    /\ qArticles = <<>>
    /\ qLimit = 0
    /\ qI = 0
    /\ qPos = 0
    /\ qLink = 0
    /\ qSuccess = 0
    /\ qProcessed = <<>>
    /\ qUrls = <<>>
    /\ no_match_articles = <<>>
    /\ qPc = "idle"

\* the state once articleinfos.json is loaded
QueryInit ==
    /\ qArticles \in SeqsUpTo(SeqsUpTo(QLinks, MaxQLinks), MaxQArticles)
    /\ qLimit \in {SmallLimit, DefaultProxyLimit}
    /\ qI = 0
    /\ qPos = 0
    /\ qLink = 0
    /\ qSuccess = 0
    /\ qProcessed = [k \in QKeys |-> <<>>]
    /\ qUrls = [k \in QKeys |-> <<>>]
    /\ no_match_articles = <<>>
    /\ qPc = "while"

\* article_batch = articles[i:i + batch_size]
QBatch == SubSeq(qArticles, qI + 1, Min(qI + QBatchSize, Len(qArticles)))

\* article['index'] of the article at qPos of the batch
QIndex == qI + qPos

\* the head of the while loop with i < len(articles)
QBatchStart ==
    /\ qPc = "while"
    /\ qI < Len(qArticles)
    /\ qPos' = 1
    /\ qLink' = 1
    /\ qSuccess' = 0
    /\ qPc' = "batch"
    /\ UNCHANGED <<qArticles, qLimit, qI, qProcessed, qUrls, no_match_articles>>

QAtLink ==
    /\ qPc = "batch"
    /\ qPos <= Len(QBatch)
    /\ qLink <= Len(QBatch[qPos])

QCurrent == QBatch[qPos][qLink]

\* process_article_batch returns: i moves by len(article_batch)
QBatchReturns ==
    /\ qI' = qI + Len(QBatch)
    /\ qPc' = "while"
    /\ UNCHANGED <<qArticles, qLimit, qPos, qLink, qSuccess, qProcessed, qUrls,
                   no_match_articles>>

\* success_count has reached proxy_limit: the batch stops
QBatchLimit ==
    /\ QAtLink
    /\ qSuccess >= qLimit
    /\ QBatchReturns

\* the key is in processed_papers: index and url are appended to its entry
QLinkKnown ==
    /\ QAtLink
    /\ qSuccess < qLimit
    /\ qProcessed[KeyOf(QCurrent)] # <<>>
    /\ qProcessed' = [qProcessed EXCEPT ![KeyOf(QCurrent)] = Append(@, QIndex)]
    /\ qUrls' = [qUrls EXCEPT ![KeyOf(QCurrent)] = Append(@, QCurrent[2])]
    /\ qLink' = qLink + 1
    /\ UNCHANGED <<qArticles, qLimit, qI, qPos, qSuccess, no_match_articles, qPc>>

\* the lookup by DOI, or the lookup by url after it, returned the paper: a new
\* entry is stored under the key and success_count grows
QLinkFound ==
    /\ QAtLink
    /\ qSuccess < qLimit
    /\ qProcessed[KeyOf(QCurrent)] = <<>>
    /\ QCurrent[1] # Missing \/ QCurrent[2] # Missing
    /\ qProcessed' = [qProcessed EXCEPT ![KeyOf(QCurrent)] = <<QIndex>>]
    /\ qUrls' = [qUrls EXCEPT ![KeyOf(QCurrent)] = <<QCurrent[2]>>]
    /\ qSuccess' = qSuccess + 1
    /\ qLink' = qLink + 1
    /\ UNCHANGED <<qArticles, qLimit, qI, qPos, no_match_articles, qPc>>

\* neither lookup returned a paper (or there was nothing to look up): the
\* paperlink is recorded in no_match_articles
QLinkNoMatch ==
    /\ QAtLink
    /\ qSuccess < qLimit
    /\ qProcessed[KeyOf(QCurrent)] = <<>>
    /\ no_match_articles' =
          Append(no_match_articles, <<QIndex, QCurrent[1], QCurrent[2]>>)
    /\ qLink' = qLink + 1
    /\ UNCHANGED <<qArticles, qLimit, qI, qPos, qSuccess, qProcessed, qUrls, qPc>>

\* the paperlinks of the article are exhausted: the next article of the batch
QNextArticle ==
    /\ qPc = "batch"
    /\ qPos <= Len(QBatch)
    /\ qLink > Len(QBatch[qPos])
    /\ qPos' = qPos + 1
    /\ qLink' = 1
    /\ UNCHANGED <<qArticles, qLimit, qI, qSuccess, qProcessed, qUrls,
                   no_match_articles, qPc>>

\* the articles of the batch are exhausted
QBatchEnd ==
    /\ qPc = "batch"
    /\ qPos > Len(QBatch)
    /\ QBatchReturns

\* the while loop is over: both files are written
QSave ==
    /\ qPc = "while"
    /\ qI >= Len(qArticles)
    /\ qPc' = "done"
    /\ UNCHANGED <<qArticles, qLimit, qI, qPos, qLink, qSuccess, qProcessed,
                   qUrls, no_match_articles>>

InSeq(x, sq) == \E n \in 1..Len(sq) : sq[n] = x

\* C9: when process_all_articles of query_doi.py has finished, every paperlink
\* of every article is accounted for: the article's index is among the
\* source_article_indices of the entry under the paperlink's key, or the
\* paperlink is recorded in no_match_articles.
C9_EveryLinkAccounted ==
    qPc = "done" =>
        \A a \in 1..Len(qArticles) :
            \A l \in 1..Len(qArticles[a]) :
                \/ InSeq(a, qProcessed[KeyOf(qArticles[a][l])])
                \/ InSeq(<<a, qArticles[a][l][1], qArticles[a][l][2]>>,
                         no_match_articles)

(***************************************************************************)
(* OpenAlexScraper.get_paper_metadata of open_alex_scraper.py.  A DOI      *)
(* string is the sequence of its parts: the part DoiPrefix stands for the  *)
(* characters "https://doi.org/", any other part for an identifier such as *)
(* "10.1000/a".  NoDoi is the argument None.  The server answers a lookup  *)
(* by DOI with the record of that DOI, whose "doi" field is the prefixed   *)
(* form; a lookup by url may return the record of any DOI.                 *)
(***************************************************************************)
DoiPrefix == "https://doi.org/"

DoiIds == {"10.1000/a", "10.1000/b"}

NoDoi == <<>>

BareDois == {<<x>> : x \in DoiIds}

PrefixedDois == {<<DoiPrefix, x>> : x \in DoiIds}

DoiArgs == BareDois \cup PrefixedDois

IsPart(t) == t # DoiPrefix

\* doi.replace("https://doi.org/", "")
ReplacePrefix(doi) == SelectSeq(doi, IsPart)

\* doi[len("https://doi.org/"):] of a string that begins with the prefix
SlicePrefix(doi) == Tail(doi)

\* the "doi" field of the record the server holds for a bare DOI
RecordDoi(bare) == <<DoiPrefix>> \o bare

OpenAlexIdle ==
    /\ metadata_cache = {}
    /\ metadata_file = {}
    /\ request_count = 0
    /\ oaDoi = NoDoi
    /\ oaApi = NoDoi
    /\ oaCalls = <<>>
    /\ oaPc = "idle"

\* __init__: the cache is what all_metadata.json holds (written by earlier runs)
OpenAlexInit ==
    /\ metadata_file \in SUBSET BareDois
    /\ metadata_cache = metadata_file
    /\ request_count = 0
    /\ oaDoi = NoDoi
    /\ oaApi = NoDoi
    /\ oaCalls = <<>>
    /\ oaPc = "ready"

CallRecord(doi, http, cached) == [doi |-> doi, http |-> http, cached |-> cached]

CanCall == oaPc = "ready" /\ Len(oaCalls) < MaxCalls

\* the lookup `doi in self.metadata_cache` of the argument as it was passed
InCache(doi, cache) == doi \in cache

\* get_paper_metadata(doi=d) with d in the cache: the cached record is returned
CacheHit ==
    \E d \in DoiArgs :
        /\ CanCall
        /\ InCache(d, metadata_cache)
        /\ oaCalls' = Append(oaCalls, CallRecord(d, FALSE, FALSE))
        /\ UNCHANGED <<metadata_cache, metadata_file, request_count, oaDoi,
                       oaApi, oaPc>>

\* get_paper_metadata(doi=d) with d not in the cache: GET works/doi:<d without
\* the prefix>
RequestByDoi ==
    \E d \in DoiArgs :
        /\ CanCall
        /\ ~InCache(d, metadata_cache)
        /\ oaDoi' = d
        /\ oaApi' = ReplacePrefix(d)
        /\ oaPc' = "awaiting"
        /\ UNCHANGED <<metadata_cache, metadata_file, request_count, oaCalls>>

\* get_paper_metadata(url=u): the redirects are followed and GET works/<url>
RequestByUrl ==
    /\ CanCall
    /\ oaDoi' = NoDoi
    /\ oaApi' \in BareDois
    /\ oaPc' = "awaiting"
    /\ UNCHANGED <<metadata_cache, metadata_file, request_count, oaCalls>>

\* get_paper_metadata(): neither doi nor url, ValueError
NoArguments ==
    /\ CanCall
    /\ oaCalls' = Append(oaCalls, CallRecord(NoDoi, FALSE, FALSE))
    /\ UNCHANGED <<metadata_cache, metadata_file, request_count, oaDoi, oaApi,
                   oaPc>>

\* status 200 and a record with a "doi": cached under the sliced DOI and saved
Response200 ==
    /\ oaPc = "awaiting"
    /\ metadata_cache' = metadata_cache \cup {SlicePrefix(RecordDoi(oaApi))}
    /\ metadata_file' = metadata_cache'
    /\ request_count' = request_count + 1
    /\ oaCalls' = Append(oaCalls, CallRecord(oaDoi, TRUE, TRUE))
    /\ oaDoi' = NoDoi
    /\ oaApi' = NoDoi
    /\ oaPc' = "ready"

\* status 200 and a record without a "doi": nothing is cached
Response200NoDoi ==
    /\ oaPc = "awaiting"
    /\ request_count' = request_count + 1
    /\ oaCalls' = Append(oaCalls, CallRecord(oaDoi, TRUE, FALSE))
    /\ oaDoi' = NoDoi
    /\ oaApi' = NoDoi
    /\ oaPc' = "ready"
    /\ UNCHANGED <<metadata_cache, metadata_file>>

\* status 404, another status, or an exception: an {"error": ...} is returned
ResponseError ==
    /\ oaPc = "awaiting"
    /\ oaCalls' = Append(oaCalls, CallRecord(oaDoi, TRUE, FALSE))
    /\ oaDoi' = NoDoi
    /\ oaApi' = NoDoi
    /\ oaPc' = "ready"
    /\ UNCHANGED <<metadata_cache, metadata_file, request_count>>

\* C10: after a call get_paper_metadata(doi=d) received a 200 response carrying
\* a DOI and cached it, a later call get_paper_metadata(doi=d) with the same
\* argument issues no HTTP request.
C10_CachedByDoi ==
    \A j \in 1..Len(oaCalls) :
        \A k \in (j + 1)..Len(oaCalls) :
            (/\ oaCalls[j].doi # NoDoi
             /\ oaCalls[j].cached
             /\ oaCalls[k].doi = oaCalls[j].doi) => ~oaCalls[k].http

(***************************************************************************)
(* process_all_articles of open_alex_scraper_one.py: one process_article   *)
(* task per article, gathered.  A task runs until it awaits the request of *)
(* get_paper_metadata, and other tasks run while it waits.  A paperlink is *)
(* the bare DOI it carries; the server answers a lookup by DOI with the    *)
(* record of that DOI or with an error, and both give a record whose 'doi' *)
(* is the DOI asked for.                                                   *)
(***************************************************************************)
PaperRecord(doi, title) == [doi |-> doi, title |-> title]

OneIdle ==
    /\ oArticles = <<>>
    /\ oLink = <<>>
    /\ oWait = <<>>
    /\ oPapers = <<>>
    /\ cache_data = <<>>
    /\ cache_file = <<>>
    /\ doi_tracking = <<>>
    /\ oRequests = <<>>
    /\ all_papers = <<>>
    /\ oPc = "idle"

\* the state once the articles and the cache are loaded and the tasks created
OneInit ==
    /\ oArticles \in SeqsUpTo(SeqsUpTo(BareDois, MaxOLinks), MaxOArticles)
    /\ oLink = [t \in DOMAIN oArticles |-> 1]
    /\ oWait = [t \in DOMAIN oArticles |-> FALSE]
    /\ oPapers = [t \in DOMAIN oArticles |-> <<>>]
    /\ cache_file \in {<<>>} \cup {<<PaperRecord(x, "paper")>> : x \in BareDois}
    /\ cache_data = cache_file
    /\ doi_tracking = [x \in BareDois |-> <<>>]
    /\ oRequests = <<>>
    /\ all_papers = <<>>
    /\ oPc = "gather"

\* check_cache(doi, url): the first paper of cache_data with that doi
CacheMatches(doi) == {n \in 1..Len(cache_data) : cache_data[n].doi = doi}

FirstOf(S) == CHOOSE n \in S : \A m \in S : n <= m

check_cache(doi) == cache_data[FirstOf(CacheMatches(doi))]

\* track_doi: the index is appended unless it is there
Tracked(indices, index) ==
    IF \E n \in 1..Len(indices) : indices[n] = index
    THEN indices ELSE Append(indices, index)

AtPaperlink(t) ==
    /\ oPc = "gather"
    /\ t \in DOMAIN oArticles
    /\ ~oWait[t]
    /\ oLink[t] <= Len(oArticles[t])

CurrentDoi(t) == oArticles[t][oLink[t]]

\* the paperlink is in the cache: the cached paper is appended and tracked
TaskCached(t) ==
    /\ AtPaperlink(t)
    /\ CacheMatches(CurrentDoi(t)) # {}
    /\ oPapers' = [oPapers EXCEPT ![t] = Append(@, check_cache(CurrentDoi(t)))]
    /\ doi_tracking' = [doi_tracking EXCEPT ![CurrentDoi(t)] = Tracked(@, t)]
    /\ oLink' = [oLink EXCEPT ![t] = @ + 1]
    /\ UNCHANGED <<oArticles, oWait, cache_data, cache_file, oRequests,
                   all_papers, oPc>>

\* the paperlink is not in the cache: the request is sent and the task waits
TaskRequests(t) ==
    /\ AtPaperlink(t)
    /\ CacheMatches(CurrentDoi(t)) = {}
    /\ oRequests' = Append(oRequests, CurrentDoi(t))
    /\ oWait' = [oWait EXCEPT ![t] = TRUE]
    /\ UNCHANGED <<oArticles, oLink, oPapers, cache_data, cache_file,
                   doi_tracking, all_papers, oPc>>

\* get_paper_metadata returns the paper, or default_paper_metadata: the
\* record is appended to the cache, the file is rewritten, the doi is tracked
TaskResumes(t, title) ==
    /\ oPc = "gather"
    /\ t \in DOMAIN oArticles
    /\ oWait[t]
    /\ cache_data' = Append(cache_data, PaperRecord(CurrentDoi(t), title))
    /\ cache_file' = cache_data'
    /\ oPapers' = [oPapers EXCEPT ![t] = Append(@, PaperRecord(CurrentDoi(t), title))]
    /\ doi_tracking' = [doi_tracking EXCEPT ![CurrentDoi(t)] = Tracked(@, t)]
    /\ oLink' = [oLink EXCEPT ![t] = @ + 1]
    /\ oWait' = [oWait EXCEPT ![t] = FALSE]
    /\ UNCHANGED <<oArticles, oRequests, all_papers, oPc>>

TaskGetsPaper == \E t \in DOMAIN oArticles : TaskResumes(t, "paper")

TaskGetsDefault == \E t \in DOMAIN oArticles : TaskResumes(t, "N/A")

TaskHits == \E t \in DOMAIN oArticles : TaskCached(t)

TaskMisses == \E t \in DOMAIN oArticles : TaskRequests(t)

\* every task has returned: gather returns and the papers are written
OneSave ==
    /\ oPc = "gather"
    /\ \A t \in DOMAIN oArticles : ~oWait[t] /\ oLink[t] > Len(oArticles[t])
    /\ all_papers' = oPapers
    /\ oPc' = "done"
    /\ UNCHANGED <<oArticles, oLink, oWait, oPapers, cache_data, cache_file,
                   doi_tracking, oRequests>>

TimesIn(x, sq) == Cardinality({n \in 1..Len(sq) : sq[n] = x})

\* C11: within one run of process_all_articles, a DOI is requested from
\* OpenAlex at most once and cache_data holds at most one record for it,
\* whatever the interleaving of the gathered process_article tasks.
C11_RequestedOnce ==
    \A x \in BareDois :
        /\ TimesIn(x, oRequests) <= 1
        /\ Cardinality(CacheMatches(x)) <= 1

(***************************************************************************)
(* URLCleaner.clean_data of url_cleaner.py.  A DOI url is the sequence of  *)
(* its parts, as above: <<DoiPrefix, id>> or, for a url of another form,   *)
(* <<id>>.  article.dois is kept as the set of its elements (the order of  *)
(* list(set(...)) is not fixed).  The urls check_all_urls rewrites are not *)
(* part of the state.                                                      *)
(***************************************************************************)
DoiUrls == PrefixedDois \cup BareDois

\* the prefix argument: the default "https://doi.org/", or None
DefaultPrefix == <<DoiPrefix>>

NonePrefix == <<>>

\* url.startswith(prefix) for a str prefix
StartsWith(url, prefix) ==
    /\ Len(url) >= Len(prefix)
    /\ SubSeq(url, 1, Len(prefix)) = prefix

\* extract_doi_from_url(url, prefix) for a str prefix
extract_doi_from_url(url, prefix) ==
    IF StartsWith(url, prefix) THEN SubSeq(url, Len(prefix) + 1, Len(url)) ELSE url

\* url.startswith(None) raises TypeError: clean_doi_urls raises when the
\* prefix is None and there is a url to extract from
CleanRaises(doi_urls, prefix) == prefix = NonePrefix /\ doi_urls # <<>>

\* clean_doi_urls(doi_urls, prefix) when it does not raise
clean_doi_urls(doi_urls, prefix) ==
    {extract_doi_from_url(doi_urls[n], prefix) : n \in 1..Len(doi_urls)}

CleanIdle ==
    /\ cArticles = <<>>
    /\ cPos = 0
    /\ cLogged = FALSE
    /\ cPc = "idle"

CleanInit ==
    /\ \E urls \in SeqsUpTo(SeqsUpTo(DoiUrls, MaxDoiUrls), MaxCArticles) :
          cArticles = [a \in DOMAIN urls |-> [doi_urls |-> urls[a], dois |-> {}]]
    /\ cPos = 0
    /\ cLogged = FALSE
    /\ cPc = "check"

\* check_all_urls returns (check_redirect catches every exception)
CheckAllUrls ==
    /\ cPc = "check"
    /\ cPos' = 1
    /\ cPc' = "loop"
    /\ UNCHANGED <<cArticles, cLogged>>

\* an article with an empty doi_urls is left alone
CleanSkips ==
    /\ cPc = "loop"
    /\ cPos <= Len(cArticles)
    /\ cArticles[cPos].doi_urls = <<>>
    /\ cPos' = cPos + 1
    /\ UNCHANGED <<cArticles, cLogged, cPc>>

\* an article with doi_urls: dois is assigned (line 114), then doi_urls is
\* cleaned with prefix=None (line 115), which raises as doi_urls is not
\* empty; the handler of clean_data logs the error and clean_data returns
CleanArticle ==
    /\ cPc = "loop"
    /\ cPos <= Len(cArticles)
    /\ cArticles[cPos].doi_urls # <<>>
    /\ CleanRaises(cArticles[cPos].doi_urls, NonePrefix)
    /\ cArticles' = [cArticles EXCEPT ![cPos].dois =
                        clean_doi_urls(cArticles[cPos].doi_urls, DefaultPrefix)]
    /\ cLogged' = TRUE
    /\ cPc' = "done"
    /\ UNCHANGED cPos

\* the loop is over: the results are logged and clean_data returns
CleanEnd ==
    /\ cPc = "loop"
    /\ cPos > Len(cArticles)
    /\ cPc' = "done"
    /\ UNCHANGED <<cArticles, cPos, cLogged>>

\* C12: after clean_data returns, for every article with a non-empty doi_urls
\* article.dois is the duplicate-free collection of its doi_urls without the
\* 'https://doi.org/' prefix.
C12_DoisCleaned ==
    cPc = "done" =>
        \A a \in 1..Len(cArticles) :
            cArticles[a].doi_urls # <<>> =>
                cArticles[a].dois =
                    clean_doi_urls(cArticles[a].doi_urls, DefaultPrefix)

(***************************************************************************)
(* check_redirect: URLCleaner.check_redirect of url_cleaner.py and the     *)
(* function check_redirect of redirecting_urls.py have the same body.      *)
(***************************************************************************)
RedirectImpls == {"URLCleaner.check_redirect", "redirecting_urls.check_redirect"}

CheckedUrls == {"http://a", "http://b"}

NoHeader == "no Location header"

Locations == {NoHeader, "http://a", "http://c"}

Statuses == {200, 204, 404, 500} \cup (MinStatus..MaxStatus)

RedirectIdle ==
    /\ crImpl = ""
    /\ crUrl = ""
    /\ crHeads = <<>>
    /\ crStatus = 0
    /\ crLocation = NoHeader
    /\ crResult = <<>>
    /\ crPc = "idle"

RedirectInit ==
    /\ crImpl \in RedirectImpls
    /\ crUrl \in CheckedUrls
    /\ crHeads = <<>>
    /\ crStatus = 0
    /\ crLocation = NoHeader
    /\ crResult = <<>>
    /\ crPc = "call"

\* 300 <= response.status < 400
IsRedirectOrBadRequest(status) == 300 <= status /\ status <= 400

IsRedirect(status) == 300 <= status /\ status < 400

\* response.headers.get('Location', url)
LocationOr(location, url) == IF location = NoHeader THEN url ELSE location

\* session.head(url, allow_redirects=False) is entered
SendHead ==
    /\ crPc = "call"
    /\ crHeads' = Append(crHeads, <<crUrl, FALSE>>)
    /\ crPc' = "head"
    /\ UNCHANGED <<crImpl, crUrl, crStatus, crLocation, crResult>>

\* the response arrives: the tuple is returned from inside the with block
HeadResponds ==
    \E status \in Statuses, location \in Locations :
        /\ crPc = "head"
        /\ crStatus' = status
        /\ crLocation' = location
        /\ crResult' = IF IsRedirect(status)
                       THEN <<TRUE, crUrl, LocationOr(location, crUrl)>>
                       ELSE <<FALSE, crUrl, crUrl>>
        /\ crPc' = "returned"
        /\ UNCHANGED <<crImpl, crUrl, crHeads>>

\* the request raises an Exception: it is logged, no redirect is assumed
HeadRaises ==
    /\ crPc = "head"
    /\ crResult' = <<FALSE, crUrl, crUrl>>
    /\ crPc' = "returned"
    /\ UNCHANGED <<crImpl, crUrl, crHeads, crStatus, crLocation>>

\* C13: check_redirect returns after exactly one HEAD request that does not
\* follow redirects; the result is (True, url, Location header or url) exactly
\* when a response with a status in 300..399 arrived, and (False, url, url)
\* for every other status and for an exception.
C13_RedirectClassified ==
    crPc = "returned" =>
        /\ crHeads = <<<<crUrl, FALSE>>>>
        /\ crResult[1] <=> crStatus \in 300..399
        /\ crStatus \in 300..399 =>
              crResult = <<TRUE, crUrl,
                           IF crLocation = NoHeader THEN crUrl ELSE crLocation>>
        /\ crStatus \notin 300..399 => crResult = <<FALSE, crUrl, crUrl>>

\* a response with status 399 and a Location header was classified a redirect
C13_Witness ==
    /\ crPc = "returned"
    /\ crStatus = 399
    /\ crLocation = "http://c"
    /\ crResult = <<TRUE, crUrl, "http://c">>

(***************************************************************************)
(* ScienceAlertScraper.fetch_article_details.  A link of the page's        *)
(* <article> is [kind, id]: kind "doi" when its canonical url starts with  *)
(* 'https://doi.org/', "dx" when it contains 'doi.org' elsewhere, "other"  *)
(* when it does not contain it; id is the DOI clean_doi extracts.  A page  *)
(* has or lacks the og:title and author meta tags.  Lists built from sets  *)
(* are kept as sets.                                                       *)
(***************************************************************************)
NA == "N/A"

TemplateFields == {"title", "author", "doi_urls", "non_doi_urls"}

PageLinks == [kind : {"doi", "dx", "other"}, id : DoiIds]

Pages == [title : {"T", "no tag"}, author : {"A", "no tag"},
          links : SeqsUpTo(PageLinks, MaxPageLinks)]

NoPage == [title |-> "no tag", author |-> "no tag", links |-> <<>>]

DetailsIdle ==
    /\ fdTemplate = {}
    /\ fdStatus = 0
    /\ fdPage = NoPage
    /\ fdArticle = <<>>
    /\ fdPc = "idle"

DetailsInit ==
    /\ fdTemplate \in {TemplateFields, {"title", "doi_urls", "non_doi_urls"},
                       {"doi_urls", "non_doi_urls"}}
    /\ fdStatus = 0
    /\ fdPage = NoPage
    /\ fdArticle = <<>>
    /\ fdPc = "call"

\* a field the template does not select keeps the dataclass default
Selected(field, value, default) == IF field \in fdTemplate THEN value ELSE default

\* create_na_article(url)
create_na_article ==
    [title |-> Selected("title", NA, "None"),
     author |-> Selected("author", NA, "None"),
     doi_urls |-> Selected("doi_urls", {NA}, {}),
     non_doi_urls |-> Selected("non_doi_urls", {NA}, {}),
     paperlinks |-> <<>>,
     dois |-> {}]

\* tag['content'] if tag else "N/A"
TagOr(content) == IF content = "no tag" THEN NA ELSE content

\* list(urls) if urls else ["N/A"]
UrlsOr(urls) == IF urls = {} THEN {NA} ELSE urls

LinkUrl(link) == <<link.kind, link.id>>

\* extract_doi_urls: the links that start with 'https://doi.org/'
extract_doi_urls(links) ==
    {LinkUrl(links[n]) : n \in {m \in 1..Len(links) : links[m].kind = "doi"}}

\* extract_non_doi_urls: the links that do not
extract_non_doi_urls(links) ==
    {LinkUrl(links[n]) : n \in {m \in 1..Len(links) : links[m].kind # "doi"}}

ContainsDoiOrg(link) == link.kind \in {"doi", "dx"}

\* extract_paperlinks: {'paperlink', 'doi'} of every link with 'doi.org'
extract_paperlinks(links) ==
    LET pl(link) == [paperlink |-> LinkUrl(link), doi |-> link.id]
        keep[n \in 0..Len(links)] ==
            IF n = 0 THEN <<>>
            ELSE IF ContainsDoiOrg(links[n]) THEN Append(keep[n - 1], pl(links[n]))
                 ELSE keep[n - 1]
    IN  keep[Len(links)]

\* the loop over paperlinks_data evaluates Article.PaperLink, an attribute the
\* dataclass Article does not have: AttributeError on the first paperlink
PaperLinkRaises(paperlinks_data) == paperlinks_data # <<>>

\* the article built from a 200 response when nothing raises
Scraped(page) ==
    [title |-> Selected("title", TagOr(page.title), "None"),
     author |-> Selected("author", TagOr(page.author), "None"),
     doi_urls |-> Selected("doi_urls", UrlsOr(extract_doi_urls(page.links)), {}),
     non_doi_urls |->
         Selected("non_doi_urls", UrlsOr(extract_non_doi_urls(page.links)), {}),
     paperlinks |-> extract_paperlinks(page.links),
     dois |-> {extract_paperlinks(page.links)[n].doi :
                   n \in 1..Len(extract_paperlinks(page.links))}]

\* fetch_final_url returns (it catches every exception); the GET is sent
FetchFinalUrl ==
    /\ fdPc = "call"
    /\ fdPc' = "get"
    /\ UNCHANGED <<fdTemplate, fdStatus, fdPage, fdArticle>>

\* status 200: the page is parsed; an exception while the article is built
\* is caught and the placeholder is returned
PageResponds ==
    \E page \in Pages :
        /\ fdPc = "get"
        /\ fdStatus' = 200
        /\ fdPage' = page
        /\ fdArticle' = IF PaperLinkRaises(extract_paperlinks(page.links))
                        THEN create_na_article
                        ELSE Scraped(page)
        /\ fdPc' = "returned"
        /\ UNCHANGED fdTemplate

\* another status: the placeholder is returned
OtherStatusResponds ==
    \E status \in {404, 500} :
        /\ fdPc = "get"
        /\ fdStatus' = status
        /\ fdArticle' = create_na_article
        /\ fdPc' = "returned"
        /\ UNCHANGED <<fdTemplate, fdPage>>

\* the GET raises: the placeholder is returned
GetRaises ==
    /\ fdPc = "get"
    /\ fdArticle' = create_na_article
    /\ fdPc' = "returned"
    /\ UNCHANGED <<fdTemplate, fdStatus, fdPage>>

DoiLinks(links) == {n \in 1..Len(links) : ContainsDoiOrg(links[n])}

\* C14: for a 200 response whose <article> has k links containing 'doi.org',
\* fetch_article_details returns an article with the scraped title and
\* author, k paperlinks and the duplicate-free DOIs of those links.
C14_PaperlinksExtracted ==
    (fdPc = "returned" /\ fdStatus = 200) =>
        /\ Len(fdArticle.paperlinks) = Cardinality(DoiLinks(fdPage.links))
        /\ fdArticle.dois = {fdPage.links[n].id : n \in DoiLinks(fdPage.links)}
        /\ "title" \in fdTemplate => fdArticle.title = TagOr(fdPage.title)
        /\ "author" \in fdTemplate => fdArticle.author = TagOr(fdPage.author)

(***************************************************************************)
(* main of combines.py: the DOIs of urldictclean.json are fetched by       *)
(* gathered MetadataScraper.fetch_metadata calls, each through             *)
(* run_with_proxy_async(fetch_doi, url, session) with the default          *)
(* retries.  run_with_proxy_async sets kwargs['proxy'] in both branches    *)
(* and awaits fetch_doi(url, session, proxy=...); fetch_doi takes (url,    *)
(* session) only, so the call raises TypeError before any request.  No     *)
(* attempt suspends, so the tasks run one after the other.                 *)
(***************************************************************************)
NotWritten == "not written"

MainDois == [doi : DoiIds, status : {200, 404}]

MainIdle ==
    /\ mProxies = <<>>
    /\ mDois = <<>>
    /\ mTask = 0
    /\ mAttempt = 0
    /\ mUsed = <<>>
    /\ mRaised = {}
    /\ mRequests = {}
    /\ mFile = NotWritten
    /\ mPc = "idle"

\* the state once urldictclean.json is read and all_dois collected
MainInit ==
    /\ mProxies \in {[i \in 1..n |-> i] : n \in 0..MaxMainProxies}
    /\ mDois \in SeqsUpTo(MainDois, MaxMainDois)
    /\ mTask = 0
    /\ mAttempt = 0
    /\ mUsed = [t \in DOMAIN mDois |-> <<>>]
    /\ mRaised = {}
    /\ mRequests = {}
    /\ mFile = NotWritten
    /\ mPc = "start"

\* `if not proxies` or `if not all_dois`: sys.exit(1)
MainExits ==
    /\ mPc = "start"
    /\ mProxies = <<>> \/ mDois = <<>>
    /\ mPc' = "exit"
    /\ UNCHANGED <<mProxies, mDois, mTask, mAttempt, mUsed, mRaised, mRequests,
                   mFile>>

\* gather creates one fetch_metadata task per DOI; the first one runs
MainGathers ==
    /\ mPc = "start"
    /\ mProxies # <<>> /\ mDois # <<>>
    /\ mTask' = 1
    /\ mAttempt' = 0
    /\ mPc' = "gather"
    /\ UNCHANGED <<mProxies, mDois, mUsed, mRaised, mRequests, mFile>>

\* fetch_doi(url, session) called with the keyword `proxy` it does not take
UnexpectedKeyword(kwargs) == "proxy" \in kwargs

\* one pass of the loop of run_with_proxy_async: a proxy is chosen,
\* kwargs['proxy'] is set, the call of fetch_doi raises TypeError, which is
\* logged, and the loop continues
MetaAttempt ==
    /\ mPc = "gather"
    /\ mTask <= Len(mDois)
    /\ MoreAttempts(mAttempt, DefaultRetries)
    /\ UnexpectedKeyword({"proxy"})
    /\ \E p \in Choice(mProxies) :
          mUsed' = [mUsed EXCEPT ![mTask] = Append(@, p)]
    /\ mAttempt' = mAttempt + 1
    /\ UNCHANGED <<mProxies, mDois, mTask, mRaised, mRequests, mFile, mPc>>

\* the loop is exhausted: the task ends with Exception('All proxy attempts
\* failed.') and the next task runs
MetaExhausted ==
    /\ mPc = "gather"
    /\ mTask <= Len(mDois)
    /\ ~MoreAttempts(mAttempt, DefaultRetries)
    /\ mRaised' = mRaised \cup {mTask}
    /\ mTask' = mTask + 1
    /\ mAttempt' = 0
    /\ UNCHANGED <<mProxies, mDois, mUsed, mRequests, mFile, mPc>>

\* main resumes: gather raises the exception of the first task that failed,
\* and main ends with it before all_metadata.json is opened
GatherRaises ==
    /\ mPc = "gather"
    /\ mTask > Len(mDois)
    /\ mRaised # {}
    /\ mPc' = "raised"
    /\ UNCHANGED <<mProxies, mDois, mTask, mAttempt, mUsed, mRaised, mRequests,
                   mFile>>

\* C15: when main has ended after gathering the fetches, all_metadata.json
\* has been written and holds the metadata of every DOI for which Crossref
\* answers 200, whatever happened to the other DOIs.
C15_FailuresRemoved ==
    mPc = "raised" =>
        /\ mFile # NotWritten
        /\ \A t \in 1..Len(mDois) : mDois[t].status = 200 => mDois[t].doi \in mFile

(***************************************************************************)
(* analyze_json_duplicates of json_analysis.py (and its copy in main.py)   *)
(* with key_paths = {'doi': ['urls', ['doi']], 'sciencealert':             *)
(* ['sciencealert']} on a JSON list.  An item is [urls, sciencealert]:     *)
(* the 'doi' of each element of its 'urls', and its 'sciencealert' link;   *)
(* Falsy stands for a value that is None, '' or absent.  The id of an item *)
(* of a list is its position counted from 0.                               *)
(***************************************************************************)
Falsy == ""

CounterNames == {"doi", "sciencealert"}

JsonValues == [doi |-> {"10.1000/a"}, sciencealert |-> {"http://s"}]

AllJsonValues == JsonValues["doi"] \cup JsonValues["sciencealert"]

JsonItems == [urls : SeqsUpTo(JsonValues["doi"] \cup {Falsy}, MaxUrls),
              sciencealert : JsonValues["sciencealert"] \cup {Falsy}]

\* extract_values_from_path(item_data, path) for the path of the counter
extract_values_from_path(item, name) ==
    IF name = "doi" THEN item.urls
    ELSE IF item.sciencealert = Falsy THEN <<>> ELSE <<item.sciencealert>>

\* enumerate(data): the id of the item at position pos
ItemId(pos) == pos - 1

\* the ids appended for a value by one item: one per truthy occurrence
AppendedIds(item, name, value, id) ==
    [n \in 1..TimesIn(value, extract_values_from_path(item, name)) |-> id]

AnalysisIdle ==
    /\ jData = <<>>
    /\ jPos = 0
    /\ counters = <<>>
    /\ duplicates = <<>>
    /\ totals = <<>>
    /\ jPc = "idle"

AnalysisInit ==
    /\ jData \in SeqsUpTo(JsonItems, MaxItems)
    /\ jPos = 1
    /\ counters = [name \in CounterNames |-> [value \in AllJsonValues |-> <<>>]]
    /\ duplicates = [name \in CounterNames |-> [value \in AllJsonValues |-> <<>>]]
    /\ totals = [name \in CounterNames |-> 0]
    /\ jPc = "loop"

\* one pass of the loop over data_items: every counter gets the item's values
AnalyzeItem ==
    /\ jPc = "loop"
    /\ jPos <= Len(jData)
    /\ counters' = [name \in CounterNames |-> [value \in AllJsonValues |->
                      counters[name][value]
                          \o AppendedIds(jData[jPos], name, value, ItemId(jPos))]]
    /\ jPos' = jPos + 1
    /\ UNCHANGED <<jData, duplicates, totals, jPc>>

\* a value recorded at all
IsRecorded(ids) == Len(ids) >= 1

\* len(ids) > 1
IsDuplicate(ids) == Len(ids) > 1

\* sum(len(ids) for ids in duplicate_counter.values())
TotalOf(dups) == SumOver([value \in AllJsonValues |-> Len(dups[value])], AllJsonValues)

\* the loop is over: duplicates and totals are computed and printed
AnalyzeReport ==
    /\ jPc = "loop"
    /\ jPos > Len(jData)
    /\ duplicates' = [name \in CounterNames |-> [value \in AllJsonValues |->
                        IF IsDuplicate(counters[name][value])
                        THEN counters[name][value] ELSE <<>>]]
    /\ totals' = [name \in CounterNames |-> TotalOf(duplicates'[name])]
    /\ jPc' = "done"
    /\ UNCHANGED <<jData, jPos, counters>>

\* how often the value occurs in the item at position pos, under the counter
OccurrencesIn(pos, name, value) ==
    TimesIn(value, extract_values_from_path(jData[pos], name))

Occurrences(name, value) ==
    SumOver([pos \in 1..Len(jData) |-> OccurrencesIn(pos, name, value)],
            1..Len(jData))

\* the items that contain the value
ItemsWith(name, value) ==
    {pos \in 1..Len(jData) : OccurrencesIn(pos, name, value) > 0}

IsReported(name, value) == duplicates[name][value] # <<>>

ReportedValues(name) == {value \in AllJsonValues : IsReported(name, value)}

\* C16 (as the code has it): a value is reported as a duplicate exactly when
\* it occurs more than once in the data, occurrences within one item counted
\* too; the ids listed are the id of the containing item once per occurrence,
\* and the total of a key is the sum of the occurrences of its reported values.
C16_DuplicatesByOccurrence ==
    jPc = "done" =>
        \A name \in CounterNames :
            /\ \A value \in AllJsonValues :
                  /\ IsReported(name, value) <=> Occurrences(name, value) > 1
                  /\ IsReported(name, value) =>
                        \A pos \in 1..Len(jData) :
                            TimesIn(ItemId(pos), duplicates[name][value])
                                = OccurrencesIn(pos, name, value)
                  /\ Len(duplicates[name][value])
                        = (IF IsReported(name, value)
                           THEN Occurrences(name, value) ELSE 0)
            /\ totals[name] =
                  SumOver([value \in AllJsonValues |-> Occurrences(name, value)],
                          ReportedValues(name))

\* a DOI that occurs twice in the only item was reported
C16_Witness ==
    /\ jPc = "done"
    /\ Len(jData) = 1
    /\ OccurrencesIn(1, "doi", "10.1000/a") = 2
    /\ duplicates["doi"]["10.1000/a"] = <<0, 0>>
    /\ totals["doi"] = 2

\* C16 (as stated): a value is reported as a duplicate exactly when more than
\* one item contains it; the ids listed are those of the distinct items that
\* contain it, and the total of a key is the sum over its reported values of
\* the number of items containing each.
C16_DuplicatesByItem ==
    jPc = "done" =>
        \A name \in CounterNames :
            /\ \A value \in AllJsonValues :
                  /\ IsReported(name, value) <=>
                        Cardinality(ItemsWith(name, value)) > 1
                  /\ IsReported(name, value) =>
                        \A pos \in 1..Len(jData) :
                            TimesIn(ItemId(pos), duplicates[name][value])
                                = (IF pos \in ItemsWith(name, value) THEN 1 ELSE 0)
            /\ totals[name] =
                  SumOver([value \in AllJsonValues |->
                              Cardinality(ItemsWith(name, value))],
                          ReportedValues(name))

(***************************************************************************)
(* ScienceAlertScraper.worker and the cache of articles.  An article is    *)
(* [title, author, doi_urls, non_doi_urls]; the two lists are kept as      *)
(* sets.  A worker runs from queue.get() to the await of                   *)
(* fetch_article_details without suspending, so the check of the cache and *)
(* the start of the fetch are one step.                                    *)
(***************************************************************************)
WorkerUrls == {"http://a", "http://b"}

CachedKinds == [title : {"T", NA}, author : {"A", NA},
                doi_urls : {{"https://doi.org/10.1000/a"}, {NA}},
                non_doi_urls : {{"http://n"}, {NA}}]

NoArticle == [title |-> "", author |-> "", doi_urls |-> {}, non_doi_urls |-> {}]

\* the articles fetch_article_details returns: a scraped one, or the one of
\* create_na_article under the template
FetchedKinds(template) ==
    {[title |-> "T", author |-> "A",
      doi_urls |-> {"https://doi.org/10.1000/a"}, non_doi_urls |-> {"http://n"}],
     [title |-> IF "title" \in template THEN NA ELSE "None",
      author |-> IF "author" \in template THEN NA ELSE "None",
      doi_urls |-> {NA}, non_doi_urls |-> {NA}]}

WorkerIdle ==
    /\ wTemplate = {}
    /\ cached_articles = <<>>
    /\ wQueue = <<>>
    /\ wFetching = {}
    /\ wOutput = <<>>
    /\ wChecks = <<>>
    /\ wFetches = <<>>

\* the state once run() has loaded the existing output and filled the queue
WorkerInit ==
    /\ wTemplate \in {TemplateFields, {"title", "doi_urls", "non_doi_urls"}}
    /\ cached_articles \in [WorkerUrls -> CachedKinds \cup {NoArticle}]
    /\ \E urls \in SeqsUpTo(WorkerUrls, MaxWEntries) :
          wQueue = [k \in DOMAIN urls |-> <<k - 1, urls[k]>>]
    /\ wFetching = {}
    /\ wOutput = <<>>
    /\ wChecks = <<>>
    /\ wFetches = <<>>

\* a field of every kind whose value counts as 'N/A'
AnyNaValue(article, field) == TRUE

\* value == "N/A", or value is a list and "N/A" in value
IsNaValue(article, field) ==
    IF field \in {"title", "author"} THEN article[field] = NA
    ELSE NA \in article[field]

\* article_has_na_fields(article)
article_has_na_fields(article, template) ==
    \E field \in template : IsNaValue(article, field)

\* entry.url in self.cached_articles and the cached article has no N/A field
UseCached(url) ==
    /\ cached_articles[url] # NoArticle
    /\ ~article_has_na_fields(cached_articles[url], wTemplate)

\* a worker takes an entry whose cached article is usable: it is appended
WorkerUsesCache ==
    /\ wQueue # <<>>
    /\ UseCached(Head(wQueue)[2])
    /\ wOutput' = Append(wOutput, cached_articles[Head(wQueue)[2]])
    /\ wChecks' = Append(wChecks, [key |-> Head(wQueue)[1], url |-> Head(wQueue)[2],
                                   cached |-> cached_articles[Head(wQueue)[2]],
                                   fetched |-> FALSE])
    /\ wQueue' = Tail(wQueue)
    /\ UNCHANGED <<wTemplate, cached_articles, wFetching, wFetches>>

\* a worker takes an entry that is not cached, or cached with an N/A field:
\* fetch_article_details is called and awaited
WorkerFetches ==
    /\ wQueue # <<>>
    /\ ~UseCached(Head(wQueue)[2])
    /\ wFetching' = wFetching \cup {Head(wQueue)}
    /\ wFetches' = Append(wFetches, Head(wQueue)[2])
    /\ wChecks' = Append(wChecks, [key |-> Head(wQueue)[1], url |-> Head(wQueue)[2],
                                   cached |-> cached_articles[Head(wQueue)[2]],
                                   fetched |-> TRUE])
    /\ wQueue' = Tail(wQueue)
    /\ UNCHANGED <<wTemplate, cached_articles, wOutput>>

\* fetch_article_details returns an article with its final url: the entry is
\* updated, cached under the final url and appended
WorkerFetched ==
    \E e \in wFetching, article \in FetchedKinds(wTemplate), final \in WorkerUrls :
        /\ wFetching' = wFetching \ {e}
        /\ cached_articles' = [cached_articles EXCEPT ![final] = article]
        /\ wOutput' = Append(wOutput, article)
        /\ UNCHANGED <<wTemplate, wQueue, wChecks, wFetches>>

\* the fields the template selects in which the article has 'N/A'
NaFields(article) ==
    {f \in wTemplate \cap {"title", "author"} : article[f] = "N/A"}
        \cup {f \in wTemplate \cap {"doi_urls", "non_doi_urls"} : "N/A" \in article[f]}

\* C17: the worker calls fetch_article_details for a queue entry if and only
\* if, when it takes the entry, the entry's url is not a key of cached_articles
\* or the cached article has 'N/A' in a field the template selects; there is
\* one fetch per such entry, and for every other entry the cached article is
\* what is appended to the output.
C17_CacheReused ==
    /\ \A n \in 1..Len(wChecks) :
          wChecks[n].fetched <=>
              (wChecks[n].cached = NoArticle \/ NaFields(wChecks[n].cached) # {})
    /\ Len(wFetches) = Cardinality({n \in 1..Len(wChecks) : wChecks[n].fetched})
    /\ \A n \in 1..Len(wChecks) :
          ~wChecks[n].fetched =>
              \E m \in 1..Len(wOutput) : wOutput[m] = wChecks[n].cached

\* an entry whose cached article has N/A only in a field the template does not
\* select was answered from the cache, after another entry was fetched
C17_Witness ==
    /\ wQueue = <<>>
    /\ wFetching = {}
    /\ Len(wChecks) = 2
    /\ wChecks[1].fetched
    /\ ~wChecks[2].fetched
    /\ wChecks[2].cached.author = "N/A"

(***************************************************************************)
(* linkcheck.run of backlink_check.py: the main thread starts num_workers  *)
(* daemon threads, fills the input queue from the file, ends it with None, *)
(* takes number_of_urls results from the output queue and joins both       *)
(* queues.  Every queue operation of a thread is a step of its own.  A     *)
(* backlink is known by its index.                                         *)
(***************************************************************************)
Sentinel == 0 - 2

Unbound == 0 - 1

BWorkers == 1..num_workers

BacklinkIdle ==
    /\ num_workers = 0
    /\ in_file = <<>>
    /\ bLine = 0
    /\ temp_bl = Unbound
    /\ number_of_urls = 0
    /\ input_queue = <<>>
    /\ inUnfinished = 0
    /\ output_queue = <<>>
    /\ outUnfinished = 0
    /\ bWorker = <<>>
    /\ bLink = <<>>
    /\ csvLinks = <<>>
    /\ bMain = "idle"

\* the state after create_threads: every worker is about to call get()
BacklinkInit ==
    /\ num_workers \in 1..MaxBWorkers
    /\ in_file \in SeqsUpTo({"url", "blank"}, MaxLines)
    /\ bLine = 1
    /\ temp_bl = Unbound
    /\ number_of_urls = 0
    /\ input_queue = <<>>
    /\ inUnfinished = 0
    /\ output_queue = <<>>
    /\ outUnfinished = 0
    /\ bWorker = [w \in 1..num_workers |-> "get"]
    /\ bLink = [w \in 1..num_workers |-> Unbound]
    /\ csvLinks = <<>>
    /\ bMain = "populate"

\* populate_input_queue, a line with a url: a backlink is made and put
PopulateUrl ==
    /\ bMain = "populate"
    /\ bLine <= Len(in_file)
    /\ in_file[bLine] = "url"
    /\ temp_bl' = number_of_urls
    /\ input_queue' = Append(input_queue, number_of_urls)
    /\ inUnfinished' = inUnfinished + 1
    /\ number_of_urls' = number_of_urls + 1
    /\ bLine' = bLine + 1
    /\ UNCHANGED <<num_workers, in_file, output_queue, outUnfinished, bWorker,
                   bLink, csvLinks, bMain>>

\* a blank line after a url: the put is outside the if, so the backlink of
\* the previous line is put once more and counted
PopulateBlank ==
    /\ bMain = "populate"
    /\ bLine <= Len(in_file)
    /\ in_file[bLine] = "blank"
    /\ temp_bl # Unbound
    /\ input_queue' = Append(input_queue, temp_bl)
    /\ inUnfinished' = inUnfinished + 1
    /\ number_of_urls' = number_of_urls + 1
    /\ bLine' = bLine + 1
    /\ UNCHANGED <<num_workers, in_file, temp_bl, output_queue, outUnfinished,
                   bWorker, bLink, csvLinks, bMain>>

\* a blank first line: temp_bl is unbound, run ends with UnboundLocalError
PopulateRaises ==
    /\ bMain = "populate"
    /\ bLine <= Len(in_file)
    /\ in_file[bLine] = "blank"
    /\ temp_bl = Unbound
    /\ bMain' = "raised"
    /\ UNCHANGED <<num_workers, in_file, bLine, temp_bl, number_of_urls,
                   input_queue, inUnfinished, output_queue, outUnfinished,
                   bWorker, bLink, csvLinks>>

\* the file is read: None is put, write_csv begins
PopulateEnds ==
    /\ bMain = "populate"
    /\ bLine > Len(in_file)
    /\ input_queue' = Append(input_queue, Sentinel)
    /\ inUnfinished' = inUnfinished + 1
    /\ bMain' = "write_csv"
    /\ UNCHANGED <<num_workers, in_file, bLine, temp_bl, number_of_urls,
                   output_queue, outUnfinished, bWorker, bLink, csvLinks>>

\* write_csv: one pass of the loop, output_queue.get() and task_done()
WriteCsvGets ==
    /\ bMain = "write_csv"
    /\ Len(csvLinks) < number_of_urls
    /\ output_queue # <<>>
    /\ csvLinks' = Append(csvLinks, Head(output_queue))
    /\ output_queue' = Tail(output_queue)
    /\ outUnfinished' = outUnfinished - 1
    /\ UNCHANGED <<num_workers, in_file, bLine, temp_bl, number_of_urls,
                   input_queue, inUnfinished, bWorker, bLink, bMain>>

\* write_csv has its number_of_urls results: the rows are written
WriteCsvEnds ==
    /\ bMain = "write_csv"
    /\ Len(csvLinks) = number_of_urls
    /\ bMain' = "queue_join"
    /\ UNCHANGED <<num_workers, in_file, bLine, temp_bl, number_of_urls,
                   input_queue, inUnfinished, output_queue, outUnfinished,
                   bWorker, bLink, csvLinks>>

\* queue_join: input_queue.get() and task_done()
JoinGets ==
    /\ bMain = "queue_join"
    /\ input_queue # <<>>
    /\ input_queue' = Tail(input_queue)
    /\ inUnfinished' = inUnfinished - 1
    /\ bMain' = "join_input"
    /\ UNCHANGED <<num_workers, in_file, bLine, temp_bl, number_of_urls,
                   output_queue, outUnfinished, bWorker, bLink, csvLinks>>

\* input_queue.join() returns
JoinInput ==
    /\ bMain = "join_input"
    /\ inUnfinished = 0
    /\ bMain' = "join_output"
    /\ UNCHANGED <<num_workers, in_file, bLine, temp_bl, number_of_urls,
                   input_queue, inUnfinished, output_queue, outUnfinished,
                   bWorker, bLink, csvLinks>>

\* output_queue.join() returns: run is over
JoinOutput ==
    /\ bMain = "join_output"
    /\ outUnfinished = 0
    /\ bMain' = "done"
    /\ UNCHANGED <<num_workers, in_file, bLine, temp_bl, number_of_urls,
                   input_queue, inUnfinished, output_queue, outUnfinished,
                   bWorker, bLink, csvLinks>>

\* worker.run: input_queue.get() returns a backlink
WorkerTakes(w) ==
    /\ bWorker[w] = "get"
    /\ input_queue # <<>>
    /\ Head(input_queue) # Sentinel
    /\ bLink' = [bLink EXCEPT ![w] = Head(input_queue)]
    /\ input_queue' = Tail(input_queue)
    /\ bWorker' = [bWorker EXCEPT ![w] = "check_url"]
    /\ UNCHANGED <<num_workers, in_file, bLine, temp_bl, number_of_urls,
                   inUnfinished, output_queue, outUnfinished, csvLinks, bMain>>

\* input_queue.get() returns None: task_done()
WorkerTakesNone(w) ==
    /\ bWorker[w] = "get"
    /\ input_queue # <<>>
    /\ Head(input_queue) = Sentinel
    /\ input_queue' = Tail(input_queue)
    /\ inUnfinished' = inUnfinished - 1
    /\ bWorker' = [bWorker EXCEPT ![w] = "put None"]
    /\ UNCHANGED <<num_workers, in_file, bLine, temp_bl, number_of_urls,
                   output_queue, outUnfinished, bLink, csvLinks, bMain>>

\* None is put back for the next worker and the thread ends
WorkerPutsNone(w) ==
    /\ bWorker[w] = "put None"
    /\ input_queue' = Append(input_queue, Sentinel)
    /\ inUnfinished' = inUnfinished + 1
    /\ bWorker' = [bWorker EXCEPT ![w] = "ended"]
    /\ UNCHANGED <<num_workers, in_file, bLine, temp_bl, number_of_urls,
                   output_queue, outUnfinished, bLink, csvLinks, bMain>>

\* check_url returns a status, or raises HTTPError, URLError or BadStatusLine
\* and link.status = str(e): the link is put on the output queue
CheckUrlGivesStatus(w) ==
    /\ bWorker[w] = "check_url"
    /\ output_queue' = Append(output_queue, bLink[w])
    /\ outUnfinished' = outUnfinished + 1
    /\ bWorker' = [bWorker EXCEPT ![w] = "task_done"]
    /\ UNCHANGED <<num_workers, in_file, bLine, temp_bl, number_of_urls,
                   input_queue, inUnfinished, bLink, csvLinks, bMain>>

\* the thread ends with an exception raised inside an except clause: nothing
\* is put on the output queue and task_done() is not called
HandlerRaises(w, error) ==
    /\ bWorker[w] = "check_url"
    /\ bWorker' = [bWorker EXCEPT ![w] = error]
    /\ UNCHANGED <<num_workers, in_file, bLine, temp_bl, number_of_urls,
                   input_queue, inUnfinished, output_queue, outUnfinished,
                   bLink, csvLinks, bMain>>

\* self.input_queue.task_done() after the put, and the loop goes on
WorkerMarksDone(w) ==
    /\ bWorker[w] = "task_done"
    /\ inUnfinished' = inUnfinished - 1
    /\ bWorker' = [bWorker EXCEPT ![w] = "get"]
    /\ UNCHANGED <<num_workers, in_file, bLine, temp_bl, number_of_urls,
                   input_queue, output_queue, outUnfinished, bLink, csvLinks, bMain>>

WorkerGetsLink == \E w \in BWorkers : WorkerTakes(w)

WorkerGetsSentinel == \E w \in BWorkers : WorkerTakesNone(w)

WorkerPassesSentinel == \E w \in BWorkers : WorkerPutsNone(w)

CheckUrlStatus == \E w \in BWorkers : CheckUrlGivesStatus(w)

\* check_url raises UnicodeDecodeError: the handler calls self.sanitize_url,
\* which worker does not have (the method is url_sanitize): AttributeError
CheckUrlUnicodeError == \E w \in BWorkers : HandlerRaises(w, "AttributeError")

\* check_url raises ConnectionResetError: the handler evaluates the name
\* input_queue, which is not defined in the module: NameError
CheckUrlConnectionReset == \E w \in BWorkers : HandlerRaises(w, "NameError")

WorkerTaskDone == \E w \in BWorkers : WorkerMarksDone(w)

\* the steps of the main thread
LinkcheckRun ==
    \/ PopulateUrl \/ PopulateBlank \/ PopulateRaises \/ PopulateEnds
    \/ WriteCsvGets \/ WriteCsvEnds \/ JoinGets \/ JoinInput \/ JoinOutput

\* the steps of worker thread w
WorkerRun(w) ==
    /\ w \in BWorkers
    /\ \/ WorkerTakes(w) \/ WorkerTakesNone(w) \/ WorkerPutsNone(w)
       \/ CheckUrlGivesStatus(w) \/ WorkerMarksDone(w)
       \/ HandlerRaises(w, "AttributeError") \/ HandlerRaises(w, "NameError")

\* C18: linkcheck.run comes to an end, whatever the input file, the number of
\* workers, the interleaving of the threads and the outcomes of check_url:
\* write_csv receives its number_of_urls results and queue_join returns (or
\* run ends with the error of a blank first line).
C18_RunTerminates == <>(bMain \in {"done", "raised"})

EarlierIdle ==
    /\ ScraperIdle /\ RetryIdle /\ CrossrefIdle /\ BatchIdle /\ QueryIdle
    /\ OpenAlexIdle

LaterIdle ==
    /\ OneIdle
    /\ CleanIdle
    /\ RedirectIdle
    /\ DetailsIdle
    /\ MainIdle
    /\ AnalysisIdle
    /\ WorkerIdle
    /\ BacklinkIdle

(***************************************************************************)
(* The specifications: one per program.                                    *)
(***************************************************************************)
Init == ScraperInit /\ RetryIdle /\ CrossrefIdle /\ BatchIdle /\ QueryIdle
    /\ OpenAlexIdle /\ LaterIdle

Next ==
    \/ RunEnqueue /\ UNCHANGED <<retryVars, crossrefVars, batchVars, queryVars, openAlexVars, laterVars>>
    \/ WorkerGetsItem /\ UNCHANGED <<retryVars, crossrefVars, batchVars, queryVars, openAlexVars, laterVars>>
    \/ WorkerGetsNone /\ UNCHANGED <<retryVars, crossrefVars, batchVars, queryVars, openAlexVars, laterVars>>
    \/ FetchReturns /\ UNCHANGED <<retryVars, crossrefVars, batchVars, queryVars, openAlexVars, laterVars>>
    \/ FetchRaises /\ UNCHANGED <<retryVars, crossrefVars, batchVars, queryVars, openAlexVars, laterVars>>
    \/ RunJoined /\ UNCHANGED <<retryVars, crossrefVars, batchVars, queryVars, openAlexVars, laterVars>>
    \/ RunSave /\ UNCHANGED <<retryVars, crossrefVars, batchVars, queryVars, openAlexVars, laterVars>>

Spec == Init /\ [][Next]_vars

InitRetry == RetryInit /\ ScraperIdle /\ CrossrefIdle /\ BatchIdle /\ QueryIdle
    /\ OpenAlexIdle /\ LaterIdle

NextRetry ==
    \/ RetryAttempt /\ UNCHANGED <<scraperVars, crossrefVars, batchVars, queryVars, openAlexVars, laterVars>>
    \/ RetryNoProxies /\ UNCHANGED <<scraperVars, crossrefVars, batchVars, queryVars, openAlexVars, laterVars>>
    \/ CallReturns /\ UNCHANGED <<scraperVars, crossrefVars, batchVars, queryVars, openAlexVars, laterVars>>
    \/ CallRaises /\ UNCHANGED <<scraperVars, crossrefVars, batchVars, queryVars, openAlexVars, laterVars>>
    \/ RetryExhausted /\ UNCHANGED <<scraperVars, crossrefVars, batchVars, queryVars, openAlexVars, laterVars>>

SpecRetry == InitRetry /\ [][NextRetry]_vars

InitDoi == DoiInit /\ ScraperIdle /\ RetryIdle /\ BatchIdle /\ QueryIdle
    /\ OpenAlexIdle /\ LaterIdle

NextDoi ==
    \/ CrossrefGet /\ UNCHANGED <<faVars, scraperVars, retryVars, batchVars, queryVars, openAlexVars, laterVars>>
    \/ ResponseOk /\ UNCHANGED <<faVars, scraperVars, retryVars, batchVars, queryVars, openAlexVars, laterVars>>
    \/ ResponseNon200 /\ UNCHANGED <<faVars, scraperVars, retryVars, batchVars, queryVars, openAlexVars, laterVars>>
    \/ ResponseBadBody /\ UNCHANGED <<faVars, scraperVars, retryVars, batchVars, queryVars, openAlexVars, laterVars>>
    \/ ResponseException /\ UNCHANGED <<faVars, scraperVars, retryVars, batchVars, queryVars, openAlexVars, laterVars>>
    \/ CrossrefGiveUp /\ UNCHANGED <<faVars, scraperVars, retryVars, batchVars, queryVars, openAlexVars, laterVars>>

SpecDoi == InitDoi /\ [][NextDoi]_vars

InitFetchAll == FetchAllInit /\ ScraperIdle /\ RetryIdle /\ BatchIdle /\ QueryIdle
    /\ OpenAlexIdle /\ LaterIdle

NextFetchAll ==
    \/ FetchAllStep /\ UNCHANGED <<scraperVars, retryVars, batchVars, queryVars, openAlexVars, laterVars>>
    \/ FetchAllNoProxies /\ UNCHANGED <<scraperVars, retryVars, batchVars, queryVars, openAlexVars, laterVars>>
    \/ FetchAllGather /\ UNCHANGED <<scraperVars, retryVars, batchVars, queryVars, openAlexVars, laterVars>>
    \/ GatherRun /\ UNCHANGED <<scraperVars, retryVars, batchVars, queryVars, openAlexVars, laterVars>>
    \/ CrossrefGet /\ UNCHANGED <<faVars, scraperVars, retryVars, batchVars, queryVars, openAlexVars, laterVars>>
    \/ ResponseOk /\ UNCHANGED <<faVars, scraperVars, retryVars, batchVars, queryVars, openAlexVars, laterVars>>
    \/ ResponseNon200 /\ UNCHANGED <<faVars, scraperVars, retryVars, batchVars, queryVars, openAlexVars, laterVars>>
    \/ ResponseBadBody /\ UNCHANGED <<faVars, scraperVars, retryVars, batchVars, queryVars, openAlexVars, laterVars>>
    \/ ResponseException /\ UNCHANGED <<faVars, scraperVars, retryVars, batchVars, queryVars, openAlexVars, laterVars>>
    \/ CrossrefGiveUp /\ UNCHANGED <<faVars, scraperVars, retryVars, batchVars, queryVars, openAlexVars, laterVars>>
    \/ GatherCollect /\ UNCHANGED <<scraperVars, retryVars, batchVars, queryVars, openAlexVars, laterVars>>
    \/ FetchAllReturn /\ UNCHANGED <<scraperVars, retryVars, batchVars, queryVars, openAlexVars, laterVars>>

SpecFetchAll == InitFetchAll /\ [][NextFetchAll]_vars

InitBatch == BatchInit /\ ScraperIdle /\ RetryIdle /\ CrossrefIdle /\ QueryIdle
    /\ OpenAlexIdle /\ LaterIdle

NextBatch ==
    \/ BatchStart /\ UNCHANGED <<scraperVars, retryVars, crossrefVars, queryVars, openAlexVars, laterVars>>
    \/ BatchLinkFound /\ UNCHANGED <<scraperVars, retryVars, crossrefVars, queryVars, openAlexVars, laterVars>>
    \/ BatchLinkError /\ UNCHANGED <<scraperVars, retryVars, crossrefVars, queryVars, openAlexVars, laterVars>>
    \/ BatchLimit /\ UNCHANGED <<scraperVars, retryVars, crossrefVars, queryVars, openAlexVars, laterVars>>
    \/ BatchBadLink /\ UNCHANGED <<scraperVars, retryVars, crossrefVars, queryVars, openAlexVars, laterVars>>
    \/ BatchNextArticle /\ UNCHANGED <<scraperVars, retryVars, crossrefVars, queryVars, openAlexVars, laterVars>>
    \/ BatchEnd /\ UNCHANGED <<scraperVars, retryVars, crossrefVars, queryVars, openAlexVars, laterVars>>
    \/ BatchSave /\ UNCHANGED <<scraperVars, retryVars, crossrefVars, queryVars, openAlexVars, laterVars>>

SpecBatch == InitBatch /\ [][NextBatch]_vars

queryOthers == <<scraperVars, retryVars, crossrefVars, batchVars, openAlexVars, laterVars>>

InitQuery == QueryInit /\ ScraperIdle /\ RetryIdle /\ CrossrefIdle /\ BatchIdle
    /\ OpenAlexIdle /\ LaterIdle

NextQuery ==
    \/ QBatchStart /\ UNCHANGED queryOthers
    \/ QBatchLimit /\ UNCHANGED queryOthers
    \/ QLinkKnown /\ UNCHANGED queryOthers
    \/ QLinkFound /\ UNCHANGED queryOthers
    \/ QLinkNoMatch /\ UNCHANGED queryOthers
    \/ QNextArticle /\ UNCHANGED queryOthers
    \/ QBatchEnd /\ UNCHANGED queryOthers
    \/ QSave /\ UNCHANGED queryOthers

SpecQuery == InitQuery /\ [][NextQuery]_vars

openAlexOthers == <<scraperVars, retryVars, crossrefVars, batchVars, queryVars,
                    laterVars>>

InitOpenAlex ==
    /\ OpenAlexInit
    /\ ScraperIdle /\ RetryIdle /\ CrossrefIdle /\ BatchIdle /\ QueryIdle
    /\ LaterIdle

NextOpenAlex ==
    \/ CacheHit /\ UNCHANGED openAlexOthers
    \/ RequestByDoi /\ UNCHANGED openAlexOthers
    \/ RequestByUrl /\ UNCHANGED openAlexOthers
    \/ NoArguments /\ UNCHANGED openAlexOthers
    \/ Response200 /\ UNCHANGED openAlexOthers
    \/ Response200NoDoi /\ UNCHANGED openAlexOthers
    \/ ResponseError /\ UNCHANGED openAlexOthers

SpecOpenAlex == InitOpenAlex /\ [][NextOpenAlex]_vars

oneOthers ==
    <<earlierVars, cleanVars, redirectVars, detailsVars, mainVars, 
        analysisVars, workerVars, backlinkVars>>

InitOne ==
    /\ OneInit
    /\ EarlierIdle
    /\ CleanIdle
    /\ RedirectIdle
    /\ DetailsIdle
    /\ MainIdle
    /\ AnalysisIdle
    /\ WorkerIdle
    /\ BacklinkIdle

NextOne ==
    \/ TaskHits /\ UNCHANGED oneOthers
    \/ TaskMisses /\ UNCHANGED oneOthers
    \/ TaskGetsPaper /\ UNCHANGED oneOthers
    \/ TaskGetsDefault /\ UNCHANGED oneOthers
    \/ OneSave /\ UNCHANGED oneOthers

SpecOne == InitOne /\ [][NextOne]_vars

cleanOthers ==
    <<earlierVars, oneVars, redirectVars, detailsVars, mainVars, 
        analysisVars, workerVars, backlinkVars>>

InitClean ==
    /\ CleanInit
    /\ EarlierIdle
    /\ OneIdle
    /\ RedirectIdle
    /\ DetailsIdle
    /\ MainIdle
    /\ AnalysisIdle
    /\ WorkerIdle
    /\ BacklinkIdle

NextClean ==
    \/ CheckAllUrls /\ UNCHANGED cleanOthers
    \/ CleanSkips /\ UNCHANGED cleanOthers
    \/ CleanArticle /\ UNCHANGED cleanOthers
    \/ CleanEnd /\ UNCHANGED cleanOthers

SpecClean == InitClean /\ [][NextClean]_vars

redirectOthers ==
    <<earlierVars, oneVars, cleanVars, detailsVars, mainVars, 
        analysisVars, workerVars, backlinkVars>>

InitRedirect ==
    /\ RedirectInit
    /\ EarlierIdle
    /\ OneIdle
    /\ CleanIdle
    /\ DetailsIdle
    /\ MainIdle
    /\ AnalysisIdle
    /\ WorkerIdle
    /\ BacklinkIdle

NextRedirect ==
    \/ SendHead /\ UNCHANGED redirectOthers
    \/ HeadResponds /\ UNCHANGED redirectOthers
    \/ HeadRaises /\ UNCHANGED redirectOthers

SpecRedirect == InitRedirect /\ [][NextRedirect]_vars

detailsOthers ==
    <<earlierVars, oneVars, cleanVars, redirectVars, mainVars, 
        analysisVars, workerVars, backlinkVars>>

InitDetails ==
    /\ DetailsInit
    /\ EarlierIdle
    /\ OneIdle
    /\ CleanIdle
    /\ RedirectIdle
    /\ MainIdle
    /\ AnalysisIdle
    /\ WorkerIdle
    /\ BacklinkIdle

NextDetails ==
    \/ FetchFinalUrl /\ UNCHANGED detailsOthers
    \/ PageResponds /\ UNCHANGED detailsOthers
    \/ OtherStatusResponds /\ UNCHANGED detailsOthers
    \/ GetRaises /\ UNCHANGED detailsOthers

SpecDetails == InitDetails /\ [][NextDetails]_vars

mainOthers ==
    <<earlierVars, oneVars, cleanVars, redirectVars, detailsVars, 
        analysisVars, workerVars, backlinkVars>>

InitMain ==
    /\ MainInit
    /\ EarlierIdle
    /\ OneIdle
    /\ CleanIdle
    /\ RedirectIdle
    /\ DetailsIdle
    /\ AnalysisIdle
    /\ WorkerIdle
    /\ BacklinkIdle

NextMain ==
    \/ MainExits /\ UNCHANGED mainOthers
    \/ MainGathers /\ UNCHANGED mainOthers
    \/ MetaAttempt /\ UNCHANGED mainOthers
    \/ MetaExhausted /\ UNCHANGED mainOthers
    \/ GatherRaises /\ UNCHANGED mainOthers

SpecMain == InitMain /\ [][NextMain]_vars

analysisOthers ==
    <<earlierVars, oneVars, cleanVars, redirectVars, detailsVars, 
        mainVars, workerVars, backlinkVars>>

InitAnalysis ==
    /\ AnalysisInit
    /\ EarlierIdle
    /\ OneIdle
    /\ CleanIdle
    /\ RedirectIdle
    /\ DetailsIdle
    /\ MainIdle
    /\ WorkerIdle
    /\ BacklinkIdle

NextAnalysis ==
    \/ AnalyzeItem /\ UNCHANGED analysisOthers
    \/ AnalyzeReport /\ UNCHANGED analysisOthers

SpecAnalysis == InitAnalysis /\ [][NextAnalysis]_vars

workerOthers ==
    <<earlierVars, oneVars, cleanVars, redirectVars, detailsVars, 
        mainVars, analysisVars, backlinkVars>>

InitWorker ==
    /\ WorkerInit
    /\ EarlierIdle
    /\ OneIdle
    /\ CleanIdle
    /\ RedirectIdle
    /\ DetailsIdle
    /\ MainIdle
    /\ AnalysisIdle
    /\ BacklinkIdle

NextWorker ==
    \/ WorkerUsesCache /\ UNCHANGED workerOthers
    \/ WorkerFetches /\ UNCHANGED workerOthers
    \/ WorkerFetched /\ UNCHANGED workerOthers

SpecWorker == InitWorker /\ [][NextWorker]_vars

backlinkOthers ==
    <<earlierVars, oneVars, cleanVars, redirectVars, detailsVars, 
        mainVars, analysisVars, workerVars>>

InitBacklink ==
    /\ BacklinkInit
    /\ EarlierIdle
    /\ OneIdle
    /\ CleanIdle
    /\ RedirectIdle
    /\ DetailsIdle
    /\ MainIdle
    /\ AnalysisIdle
    /\ WorkerIdle

NextBacklink ==
    \/ PopulateUrl /\ UNCHANGED backlinkOthers
    \/ PopulateBlank /\ UNCHANGED backlinkOthers
    \/ PopulateRaises /\ UNCHANGED backlinkOthers
    \/ PopulateEnds /\ UNCHANGED backlinkOthers
    \/ WriteCsvGets /\ UNCHANGED backlinkOthers
    \/ WriteCsvEnds /\ UNCHANGED backlinkOthers
    \/ JoinGets /\ UNCHANGED backlinkOthers
    \/ JoinInput /\ UNCHANGED backlinkOthers
    \/ JoinOutput /\ UNCHANGED backlinkOthers
    \/ WorkerGetsLink /\ UNCHANGED backlinkOthers
    \/ WorkerGetsSentinel /\ UNCHANGED backlinkOthers
    \/ WorkerPassesSentinel /\ UNCHANGED backlinkOthers
    \/ CheckUrlStatus /\ UNCHANGED backlinkOthers
    \/ CheckUrlUnicodeError /\ UNCHANGED backlinkOthers
    \/ CheckUrlConnectionReset /\ UNCHANGED backlinkOthers
    \/ WorkerTaskDone /\ UNCHANGED backlinkOthers

SpecBacklink == InitBacklink /\ [][NextBacklink]_vars

\* every thread that can take a step eventually takes one
FairBacklink ==
    /\ SpecBacklink
    /\ WF_vars(LinkcheckRun /\ UNCHANGED backlinkOthers)
    /\ \A w \in 1..MaxBWorkers : WF_vars(WorkerRun(w) /\ UNCHANGED backlinkOthers)

====
